---- MODULE Spec2Model ----
(***************************************************************************)
(* Model of the quiz-agent orchestration loop (agent/core.py: AgentCore)   *)
(* together with the parts of the tool executor and the memory store the   *)
(* loop drives.  One call of AgentCore.run is followed from its invocation *)
(* to the moment it returns or raises; stop() may be called by another     *)
(* thread at any moment, and the handler of a tool call runs on the worker *)
(* thread of the one-slot pool that _execute_with_timeout creates.         *)
(***************************************************************************)
EXTENDS FiniteSets, Integers, Naturals, Sequences, TLC

VARIABLES
    pc,                      \* position of the thread that executes run
    iteration_count,         \* self.iteration_count
    stop_requested,          \* self._stop_requested
    current_input,           \* the turn that the next send_message submits
    response,                \* the last response of chat.send_message
    fc_index,                \* position of the for loop over function_calls
    function_response_parts, \* tool-response records collected so far
    figma_images,            \* image paths collected from the batch's results
    running,                 \* calls of the batch whose handler is executing
    outcome,                 \* how run ended (return value class or raise)
    return_value,            \* the text that run returned
    session_saves,           \* number of MemoryManager.save_session calls
    sent_log,                \* history: messages submitted in this round trip
    tool_pc,                 \* tools: "ready" before a call, "done" after it
    tool_in,                 \* tools: the arguments of the call
    tool_out,                \* tools: what the call returned or raised
    effects,                 \* tools: what the call did to the outside world
    threads,                 \* concurrent callers: position and locals of each
    dev_server_proc,         \* executor: the tracked dev-server process, or None
    procs,                   \* the dev-server processes that are alive
    store,                   \* memory: the backing file of each category
    locks,                   \* memory: the holder of each category's lock
    clock                    \* memory: datetime.now(), in seconds

\* the fields of a run of the agent loop
runvars == <<pc, iteration_count, stop_requested, current_input, response,
             fc_index, function_response_parts, figma_images, running,
             outcome, return_value, session_saves, sent_log>>

\* the state of a direct call of a tool function
toolvars == <<tool_pc, tool_in, tool_out, effects>>

\* the state shared by concurrent callers of the executor and of the memory
sharedvars == <<threads, dev_server_proc, procs, store, locks, clock>>

vars == <<runvars, toolvars, sharedvars>>

\* no tool function is being called directly
ToolsIdle ==
    /\ tool_pc = "idle"
    /\ tool_in = <<>>
    /\ tool_out = <<>>
    /\ effects = <<>>

\* _dev_server_proc = None; processes are numbered from 1
NoProcess == 0

\* no concurrent caller is active, no dev server runs, the memory is untouched
SharedIdle ==
    /\ threads = <<>>
    /\ dev_server_proc = NoProcess
    /\ procs = {}
    /\ store = <<>>
    /\ locks = <<>>
    /\ clock = 0

-----------------------------------------------------------------------------
(* Program constants *)

MAX_ITERATIONS == 80

(* Bounds of the model *)

\* longest list of content parts in one model response
MaxParts == 2
\* iterations explored by the specification with the full input space
MaxTurns == 2

-----------------------------------------------------------------------------
(* Values *)

\* the tools a response calls: its k-th function call names ToolOrder[k]
ToolOrder == <<"create_file", "run_command", "read_file", "list_files">>

FcPart(n) == [fc |-> n, text |-> ""]
TextPart(s) == [fc |-> "", text |-> s]


RECURSIVE SeqsUpTo(_, _)
SeqsUpTo(S, n) ==
    IF n = 0 THEN {<<>>}
    ELSE LET shorter == SeqsUpTo(S, n - 1)
         IN  shorter \cup {Append(s, x) : s \in {t \in shorter : Len(t) = n - 1}, x \in S}

\* a response is: candidates present?, candidates[0].content present?,
\* content.parts a list (has_parts) or None, and the list itself
NoCandidates == [cand |-> FALSE, content |-> FALSE, has_parts |-> FALSE, parts |-> <<>>]
NoContent == [cand |-> TRUE, content |-> FALSE, has_parts |-> FALSE, parts |-> <<>>]
NoPartsList == [cand |-> TRUE, content |-> TRUE, has_parts |-> FALSE, parts |-> <<>>]
WithParts(ps) == [cand |-> TRUE, content |-> TRUE, has_parts |-> TRUE, parts |-> ps]

\* the parts of a response whose parts are function calls and texts in the
\* order that shape gives, k - 1 calls standing before shape
RECURSIVE PartsOf(_, _)
PartsOf(shape, k) ==
    IF Len(shape) = 0 THEN <<>>
    ELSE IF Head(shape) = "fc"
         THEN <<FcPart(ToolOrder[k])>> \o PartsOf(Tail(shape), k + 1)
         ELSE <<TextPart("a")>> \o PartsOf(Tail(shape), k)

Responses ==
    {NoCandidates, NoContent, NoPartsList}
        \cup {WithParts(PartsOf(sh, 1)) : sh \in SeqsUpTo({"fc", "text"}, MaxParts)}

\* the responses of the run that is followed up to the iteration limit
LimitResponses ==
    {NoCandidates, NoPartsList,
     WithParts(<<FcPart("create_file")>>), WithParts(<<TextPart("a")>>)}

\* what a handler does when it finishes: returns text, returns "", returns
\* None, raises, or returns text that ends with an image marker
HandlerOutcomes == {"text", "empty", "none", "raise", "figma_marker", "validation_marker"}
LimitHandlerOutcomes == {"text", "raise"}

\* the items of a turn: n is the page number of a page caption, else 0
UserTurn == <<[t |-> "user", name |-> "", text |-> "user_input", n |-> 0]>>
NudgeTurn == <<[t |-> "user", name |-> "", text |-> "nudge", n |-> 0]>>
FunctionResponse(nm, txt) == [t |-> "function_response", name |-> nm, text |-> txt, n |-> 0]
ImagePart(p) == [t |-> "image", name |-> "", text |-> p, n |-> 0]
CaptionPart(s, k) == [t |-> "text", name |-> "", text |-> s, n |-> k]

FigmaImage == "figma_cache/frame.png"
AppImage == "validation_screenshots/page.png"
\* a design image that exists on disk and that Image.open cannot read
BrokenImage == "figma_cache/broken.png"

-----------------------------------------------------------------------------
(* agent/core.py: run, lines 170 and 176 *)
IsEmptyResponse(r) == ~r.cand \/ ~r.content

(* agent/core.py: run, lines 180-187 *)
FunctionCalls(r) == SelectSeq(r.parts, LAMBDA p : p.fc # "")
TextParts(r) == SelectSeq(r.parts, LAMBDA p : p.text # "")

(* agent/core.py: run, line 195: "\n".join(text_parts) *)
RECURSIVE Join(_)
Join(ps) ==
    IF Len(ps) = 0 THEN <<>>
    ELSE IF Len(ps) = 1 THEN <<ps[1].text>>
    ELSE <<ps[1].text, "\n">> \o Join(Tail(ps))


\* a plausible slip: the call is not wrapped in try/except
CatchesNothing(o) == FALSE

(* agent/core.py: run, lines 213-217: the result of one dispatched call.    *)
(* A handler exception travels through future.result and is caught.         *)
CatchesHandlerException(o) == o = "raise"

ExecuteResult(o) == IF CatchesHandlerException(o) THEN "error" ELSE o

(* agent/core.py: run, lines 219-250: the text of the tool-response record  *)
ResultText(res) ==
    CASE res \in {"empty", "none"} -> "placeholder"
      [] res \in {"figma_marker", "validation_marker"} -> "text"
      [] OTHER -> res

(* agent/core.py: run, lines 226-243: the image paths named after a marker  *)
ResultImages(res) ==
    CASE res = "figma_marker" -> <<FigmaImage>>
      [] res = "validation_marker" -> <<FigmaImage, AppImage>>
      [] OTHER -> <<>>

\* a plausible slip: the record is put in front of the earlier ones
PrependRecord(parts, rec) == <<rec>> \o parts

(* agent/core.py: run, lines 245-250 *)
AppendRecord(parts, rec) == Append(parts, rec)

(* agent/core.py: run, lines 263-264 and 281 *)
IsAppImage(p) == p = AppImage

(* agent/core.py: run, lines 290-297 and the like: Image.open in a try;     *)
(* an image that cannot be opened adds nothing to the turn                  *)
LoadedImage(p, caption) ==
    IF p = BrokenImage THEN <<>> ELSE <<ImagePart(p), CaptionPart(caption, 0)>>

(* agent/core.py: run, lines 277-319: the paired walk over figma_images     *)
RECURSIVE PairedWalk(_, _, _)
PairedWalk(imgs, i, pair_num) ==
    IF i > Len(imgs) THEN <<>>
    ELSE IF ~IsAppImage(imgs[i]) /\ i + 1 <= Len(imgs) /\ IsAppImage(imgs[i + 1])
         THEN <<CaptionPart("page", pair_num + 1)>>
              \o LoadedImage(imgs[i], "figma_target")
              \o LoadedImage(imgs[i + 1], "app_actual")
              \o PairedWalk(imgs, i + 2, pair_num + 1)
         ELSE LoadedImage(imgs[i], IF IsAppImage(imgs[i]) THEN "app_extra" ELSE "figma_unpaired")
              \o PairedWalk(imgs, i + 1, pair_num)

(* agent/core.py: run, lines 339-347 *)
RECURSIVE ReferenceWalk(_)
ReferenceWalk(imgs) ==
    IF Len(imgs) = 0 THEN <<>>
    ELSE LoadedImage(Head(imgs), "figma_frame") \o ReferenceWalk(Tail(imgs))

(* agent/core.py: run, lines 257-356: the turn composed from a batch        *)
ComposeTurn(records, imgs) ==
    LET app_imgs == SelectSeq(imgs, IsAppImage)
        figma_only == SelectSeq(imgs, LAMBDA p : ~IsAppImage(p))
    IN  IF Len(imgs) = 0 THEN records
        ELSE IF Len(app_imgs) > 0 /\ Len(figma_only) > 0
             THEN records \o <<CaptionPart("comparison_header", 0)>>
                      \o PairedWalk(imgs, 1, 0)
                      \o <<CaptionPart("compare_instruction", 0)>>
        ELSE IF Len(figma_only) > 0
             THEN records \o <<CaptionPart("reference_header", 0)>>
                      \o ReferenceWalk(figma_only)
                      \o <<CaptionPart("replicate_instruction", 0)>>
        ELSE records

-----------------------------------------------------------------------------
(* AgentCore.__init__: nothing has run, no stop is requested *)
\* no run of the agent loop has been called
RunIdle ==
    /\ pc = "idle"
    /\ iteration_count = 0
    /\ stop_requested = FALSE
    /\ current_input = <<>>
    /\ response = NoCandidates
    /\ fc_index = 0
    /\ function_response_parts = <<>>
    /\ figma_images = <<>>
    /\ running = {}
    /\ outcome = "none"
    /\ return_value = <<>>
    /\ session_saves = 0
    /\ sent_log = <<>>

Init ==
    /\ RunIdle
    /\ ToolsIdle
    /\ SharedIdle

(* run, line 358 *)
ExhaustedText == <<"Agent reached maximum iteration limit.">>

\* run returns text (a return) or unwinds with an exception (a raise)
Finish(how, text) ==
    /\ pc' = "done"
    /\ outcome' = how
    /\ return_value' = text

(* AgentCore.stop, called from another thread (web/server.py: stop_build,  *)
(* app.py: the "stop" command and the KeyboardInterrupt handler)            *)
Stop ==
    /\ pc \notin {"idle", "done"}
    /\ stop_requested' = TRUE
    /\ UNCHANGED <<toolvars, sharedvars>>
    /\ UNCHANGED <<pc, iteration_count, current_input, response, fc_index,
                   function_response_parts, figma_images, running, outcome,
                   return_value, session_saves, sent_log>>

(* the caller invokes run: lines 90-122 run before any field is written     *)
RunCall ==
    /\ pc = "idle"
    /\ pc' = "setup"
    /\ UNCHANGED <<toolvars, sharedvars>>
    /\ UNCHANGED <<iteration_count, stop_requested, current_input, response,
                   fc_index, function_response_parts, figma_images, running,
                   outcome, return_value, session_saves, sent_log>>

(* run, lines 123-145: the counter, the first turn and the stop flag        *)
RunSetup ==
    /\ pc = "setup"
    /\ iteration_count' = 0
    /\ current_input' = UserTurn
    /\ stop_requested' = FALSE
    /\ pc' = "loop_top"
    /\ UNCHANGED <<toolvars, sharedvars>>
    /\ UNCHANGED <<response, fc_index, function_response_parts, figma_images,
                   running, outcome, return_value, session_saves, sent_log>>

\* a plausible slip: the comparison admits one iteration more
LoopConditionInclusive == iteration_count <= MAX_ITERATIONS

(* run, line 147: the loop condition *)
LoopCondition == iteration_count < MAX_ITERATIONS

\* a plausible slip: the poll at the start of an iteration is missing
StopNotPolledAtLoopTop == FALSE

(* run, line 149: the stop flag as polled at the start of an iteration      *)
StopSeenAtLoopTop == stop_requested

\* a plausible slip: the poll before each tool call is missing
StopNotPolledBeforeTool == FALSE

(* run, line 205: the stop flag as polled before each tool call             *)
StopSeenBeforeTool == stop_requested

(* run, line 253: the stop flag as polled after the batch                   *)
StopSeenAfterBatch == stop_requested

(* run, lines 147-158: an iteration starts *)
LoopEnter ==
    /\ pc = "loop_top"
    /\ LoopCondition
    /\ ~StopSeenAtLoopTop
    /\ iteration_count' = iteration_count + 1
    /\ sent_log' = <<>>
    /\ pc' = "send"
    /\ UNCHANGED <<toolvars, sharedvars>>
    /\ UNCHANGED <<stop_requested, current_input, response, fc_index,
                   function_response_parts, figma_images, running, outcome,
                   return_value, session_saves>>

(* run, lines 149-151 *)
LoopStop ==
    /\ pc = "loop_top"
    /\ LoopCondition
    /\ StopSeenAtLoopTop
    /\ Finish("stopped", <<>>)
    /\ UNCHANGED <<toolvars, sharedvars>>
    /\ UNCHANGED <<iteration_count, stop_requested, current_input, response,
                   fc_index, function_response_parts, figma_images, running,
                   session_saves, sent_log>>

(* run, lines 147 and 358: the loop condition fails *)
LoopExhausted ==
    /\ pc = "loop_top"
    /\ ~LoopCondition
    /\ Finish("exhausted", ExhaustedText)
    /\ UNCHANGED <<toolvars, sharedvars>>
    /\ UNCHANGED <<iteration_count, stop_requested, current_input, response,
                   fc_index, function_response_parts, figma_images, running,
                   session_saves, sent_log>>

\* a response has arrived: lines 170-177 decide where run goes next
Received(r, from) ==
    /\ response' = r
    /\ IF IsEmptyResponse(r)
       THEN IF from = "nudge"
            THEN Finish("empty_response", <<"Agent stopped: model returned empty response after retry.">>)
            ELSE pc' = "nudge" /\ UNCHANGED <<outcome, return_value>>
       ELSE pc' = "parse" /\ UNCHANGED <<outcome, return_value>>

(* run, line 160: the round trip of the iteration succeeds *)
SendMessage(r) ==
    /\ pc = "send"
    /\ sent_log' = Append(sent_log, current_input)
    /\ Received(r, "send")
    /\ UNCHANGED <<toolvars, sharedvars>>
    /\ UNCHANGED <<iteration_count, stop_requested, current_input, fc_index,
                   function_response_parts, figma_images, running,
                   session_saves>>

(* run, lines 160-163: the round trip fails *)
SendFails ==
    /\ pc = "send"
    /\ sent_log' = Append(sent_log, current_input)
    /\ pc' = "retry"
    /\ UNCHANGED <<toolvars, sharedvars>>
    /\ UNCHANGED <<iteration_count, stop_requested, current_input, response,
                   fc_index, function_response_parts, figma_images, running,
                   outcome, return_value, session_saves>>

(* run, line 165: the retry succeeds *)
RetryMessage(r) ==
    /\ pc = "retry"
    /\ sent_log' = Append(sent_log, current_input)
    /\ Received(r, "retry")
    /\ UNCHANGED <<toolvars, sharedvars>>
    /\ UNCHANGED <<iteration_count, stop_requested, current_input, fc_index,
                   function_response_parts, figma_images, running,
                   session_saves>>

\* a plausible slip: the failed retry is attempted again
RetryFailsAndRetries ==
    /\ pc = "retry"
    /\ sent_log' = Append(sent_log, current_input)
    /\ IF Len(sent_log) < 3
       THEN pc' = "retry" /\ UNCHANGED <<outcome, return_value>>
       ELSE Finish("api_error", <<"Agent stopped due to API error">>)
    /\ UNCHANGED <<toolvars, sharedvars>>
    /\ UNCHANGED <<iteration_count, stop_requested, current_input, response,
                   fc_index, function_response_parts, figma_images, running,
                   session_saves>>

(* run, lines 165-167: the retry fails *)
RetryFails ==
    /\ pc = "retry"
    /\ sent_log' = Append(sent_log, current_input)
    /\ Finish("api_error", <<"Agent stopped due to API error">>)
    /\ UNCHANGED <<toolvars, sharedvars>>
    /\ UNCHANGED <<iteration_count, stop_requested, current_input, response,
                   fc_index, function_response_parts, figma_images, running,
                   session_saves>>

(* run, lines 170-173: the nudge is answered *)
SendNudge(r) ==
    /\ pc = "nudge"
    /\ sent_log' = Append(sent_log, NudgeTurn)
    /\ Received(r, "nudge")
    /\ UNCHANGED <<toolvars, sharedvars>>
    /\ UNCHANGED <<iteration_count, stop_requested, current_input, fc_index,
                   function_response_parts, figma_images, running,
                   session_saves>>

(* run, lines 173-175: the nudge fails *)
NudgeFails ==
    /\ pc = "nudge"
    /\ sent_log' = Append(sent_log, NudgeTurn)
    /\ Finish("empty_response", <<"Agent stopped: model returned empty response and retry failed">>)
    /\ UNCHANGED <<toolvars, sharedvars>>
    /\ UNCHANGED <<iteration_count, stop_requested, current_input, response,
                   fc_index, function_response_parts, figma_images, running,
                   session_saves>>

(* run, line 183: iterating content.parts when it is None raises TypeError  *)
ParseRaises ==
    /\ pc = "parse"
    /\ ~response.has_parts
    /\ Finish("raised", <<>>)
    /\ UNCHANGED <<toolvars, sharedvars>>
    /\ UNCHANGED <<iteration_count, stop_requested, current_input, response,
                   fc_index, function_response_parts, figma_images, running,
                   session_saves, sent_log>>

\* a plausible slip: only the first text part is returned
FirstTextOnly(r) == IF Len(TextParts(r)) = 0 THEN <<>> ELSE <<TextParts(r)[1].text>>

(* run, line 195 *)
FinalText(r) == Join(TextParts(r))

(* run, lines 194-196 with MemoryManager.save_session: no function calls    *)
SaveSession ==
    /\ pc = "parse"
    /\ response.has_parts
    /\ Len(FunctionCalls(response)) = 0
    /\ session_saves' = session_saves + 1
    /\ pc' = "return_final"
    /\ UNCHANGED <<toolvars, sharedvars>>
    /\ UNCHANGED <<iteration_count, stop_requested, current_input, response,
                   fc_index, function_response_parts, figma_images, running,
                   outcome, return_value, sent_log>>

(* run, line 197 *)
ReturnFinal ==
    /\ pc = "return_final"
    /\ Finish("completed", FinalText(response))
    /\ UNCHANGED <<toolvars, sharedvars>>
    /\ UNCHANGED <<iteration_count, stop_requested, current_input, response,
                   fc_index, function_response_parts, figma_images, running,
                   session_saves, sent_log>>

(* run, lines 199-203: the batch starts *)
BeginBatch ==
    /\ pc = "parse"
    /\ response.has_parts
    /\ Len(FunctionCalls(response)) > 0
    /\ function_response_parts' = <<>>
    /\ figma_images' = <<>>
    /\ fc_index' = 1
    /\ sent_log' = <<>>
    /\ pc' = "dispatch"
    /\ UNCHANGED <<toolvars, sharedvars>>
    /\ UNCHANGED <<iteration_count, stop_requested, current_input, response,
                   running, outcome, return_value, session_saves>>

(* run, lines 205-207 *)
ToolStop ==
    /\ pc = "dispatch"
    /\ StopSeenBeforeTool
    /\ Finish("stopped", <<>>)
    /\ UNCHANGED <<toolvars, sharedvars>>
    /\ UNCHANGED <<iteration_count, stop_requested, current_input, response,
                   fc_index, function_response_parts, figma_images, running,
                   session_saves, sent_log>>

(* run, lines 209-214 and _execute_with_timeout, lines 72-74: the call is   *)
(* submitted to a new one-worker pool and its handler starts                *)
ToolSubmit ==
    /\ pc = "dispatch"
    /\ ~StopSeenBeforeTool
    /\ running' = running \cup {fc_index}
    /\ pc' = "tool_wait"
    /\ UNCHANGED <<toolvars, sharedvars>>
    /\ UNCHANGED <<iteration_count, stop_requested, current_input, response,
                   fc_index, function_response_parts, figma_images, outcome,
                   return_value, session_saves, sent_log>>

\* run, lines 219-250: the result becomes a record and the loop moves on
Collect(res) ==
    /\ function_response_parts' =
           AppendRecord(function_response_parts,
                        FunctionResponse(FunctionCalls(response)[fc_index].fc,
                                         ResultText(ExecuteResult(res))))
    /\ figma_images' = figma_images \o ResultImages(res)
    /\ IF fc_index < Len(FunctionCalls(response))
       THEN fc_index' = fc_index + 1 /\ pc' = "dispatch"
       ELSE fc_index' = fc_index /\ pc' = "after_batch"
    /\ UNCHANGED <<toolvars, sharedvars>>
    /\ UNCHANGED <<outcome, return_value>>

(* tools/executor.py: execute_tool on the worker thread comes to an end.    *)
(* If future.result, line 76, is still waiting it takes the outcome: the    *)
(* pool is idle, the with block is left and lines 215-250 run.  After a     *)
(* timeout the outcome is discarded.                                        *)
HandlerReturns(j, o) ==
    /\ j \in running
    /\ running' = running \ {j}
    /\ IF pc = "tool_wait" /\ j = fc_index
       THEN IF o = "raise" /\ ~CatchesHandlerException(o)
            THEN /\ Finish("tool_exception", <<>>)
                 /\ UNCHANGED <<function_response_parts, figma_images, fc_index>>
            ELSE Collect(o)
       ELSE UNCHANGED <<pc, outcome, return_value, function_response_parts,
                        figma_images, fc_index>>
    /\ UNCHANGED <<toolvars, sharedvars>>
    /\ UNCHANGED <<iteration_count, stop_requested, current_input, response,
                   session_saves, sent_log>>

(* _execute_with_timeout, lines 76-78: the timeout elapses first *)
ToolTimeout ==
    /\ pc = "tool_wait"
    /\ fc_index \in running
    /\ pc' = "pool_exit"
    /\ UNCHANGED <<toolvars, sharedvars>>
    /\ UNCHANGED <<iteration_count, stop_requested, current_input, response,
                   fc_index, function_response_parts, figma_images, running,
                   outcome, return_value, session_saves, sent_log>>

\* a plausible slip: the pool is shut down without waiting for its worker
PoolExitDoesNotWait == TRUE

(* _execute_with_timeout, line 73: leaving the with block calls             *)
(* pool.shutdown(wait=True), which returns when the worker is idle          *)
PoolExitAllowed == fc_index \notin running

(* _execute_with_timeout, lines 73 and 78, then run, lines 219-250: the     *)
(* timeout error is returned once the with block has been left              *)
TimeoutReturns ==
    /\ pc = "pool_exit"
    /\ PoolExitAllowed
    /\ Collect("timeout")
    /\ UNCHANGED <<toolvars, sharedvars>>
    /\ UNCHANGED <<iteration_count, stop_requested, current_input, response,
                   running, session_saves, sent_log>>

(* run, lines 253-255 *)
BatchStop ==
    /\ pc = "after_batch"
    /\ StopSeenAfterBatch
    /\ Finish("stopped", <<>>)
    /\ UNCHANGED <<toolvars, sharedvars>>
    /\ UNCHANGED <<iteration_count, stop_requested, current_input, response,
                   fc_index, function_response_parts, figma_images, running,
                   session_saves, sent_log>>

(* run, lines 257-356: the next turn is composed *)
NextTurn ==
    /\ pc = "after_batch"
    /\ ~StopSeenAfterBatch
    /\ current_input' = ComposeTurn(function_response_parts, figma_images)
    /\ pc' = "loop_top"
    /\ UNCHANGED <<toolvars, sharedvars>>
    /\ UNCHANGED <<iteration_count, stop_requested, response, fc_index,
                   function_response_parts, figma_images, running, outcome,
                   return_value, session_saves, sent_log>>

-----------------------------------------------------------------------------
\* the first MaxTurns iterations of a run, with every response and outcome
Next ==
    \/ Stop
    \/ RunCall
    \/ RunSetup
    \/ (iteration_count < MaxTurns /\ LoopEnter)
    \/ LoopStop
    \/ \E r \in Responses : SendMessage(r)
    \/ SendFails
    \/ \E r \in Responses : RetryMessage(r)
    \/ RetryFails
    \/ \E r \in Responses : SendNudge(r)
    \/ NudgeFails
    \/ ParseRaises
    \/ SaveSession
    \/ ReturnFinal
    \/ BeginBatch
    \/ ToolStop
    \/ ToolSubmit
    \/ \E j \in 1..MaxParts, o \in HandlerOutcomes : HandlerReturns(j, o)
    \/ ToolTimeout
    \/ TimeoutReturns
    \/ BatchStop
    \/ NextTurn

Spec == Init /\ [][Next]_vars

\* a whole run up to the iteration limit, with one-call batches
NextLimit ==
    \/ Stop
    \/ RunCall
    \/ RunSetup
    \/ LoopEnter
    \/ LoopStop
    \/ LoopExhausted
    \/ \E r \in LimitResponses : SendMessage(r)
    \/ SendFails
    \/ \E r \in LimitResponses : RetryMessage(r)
    \/ RetryFails
    \/ \E r \in LimitResponses : SendNudge(r)
    \/ NudgeFails
    \/ ParseRaises
    \/ SaveSession
    \/ ReturnFinal
    \/ BeginBatch
    \/ ToolStop
    \/ ToolSubmit
    \/ \E o \in LimitHandlerOutcomes : HandlerReturns(1, o)
    \/ ToolTimeout
    \/ TimeoutReturns
    \/ BatchStop
    \/ NextTurn

SpecLimit == Init /\ [][NextLimit]_vars

-----------------------------------------------------------------------------
(* The composition of the next turn, lines 252-356, from every list of      *)
(* collected images: a one-call batch has just been dispatched and its      *)
(* result named the images of figma_images, all of which exist on disk.     *)

\* longest list of collected images
MaxImages == 4

ImagePaths == {FigmaImage, AppImage, BrokenImage}

InitCompose ==
    /\ pc = "after_batch"
    /\ iteration_count = 1
    /\ stop_requested = FALSE
    /\ current_input = UserTurn
    /\ response = WithParts(<<FcPart(ToolOrder[1])>>)
    /\ fc_index = 1
    /\ function_response_parts = <<FunctionResponse(ToolOrder[1], "text")>>
    /\ figma_images \in SeqsUpTo(ImagePaths, MaxImages)
    /\ running = {}
    /\ outcome = "none"
    /\ return_value = <<>>
    /\ session_saves = 0
    /\ sent_log = <<>>
    /\ ToolsIdle
    /\ SharedIdle

NextCompose ==
    \/ Stop
    \/ BatchStop
    \/ NextTurn

SpecCompose == InitCompose /\ [][NextCompose]_vars

-----------------------------------------------------------------------------
(* Strings. A Python str is a sequence of one-character strings, and the    *)
(* str methods the tools use are computed character by character.           *)

UpperCase == <<"A", "B", "C", "D", "E", "F", "G", "H", "I", "J", "K", "L", "M", "N", "O", "P", "Q", "R", "S", "T", "U", "V", "W", "X", "Y", "Z">>
LowerCase == <<"a", "b", "c", "d", "e", "f", "g", "h", "i", "j", "k", "l", "m", "n", "o", "p", "q", "r", "s", "t", "u", "v", "w", "x", "y", "z">>

\* str.strip, str.lstrip and str.rstrip without argument remove these
Whitespace == {" ", "\t", "\n"}

LowerChar(c) ==
    IF \E i \in DOMAIN UpperCase : UpperCase[i] = c
    THEN LowerCase[CHOOSE i \in DOMAIN UpperCase : UpperCase[i] = c]
    ELSE c

\* str.lower
Lower(s) == [i \in 1..Len(s) |-> LowerChar(s[i])]

\* str.lstrip(chars)
RECURSIVE LStripChars(_, _)
LStripChars(s, chars) ==
    IF s # <<>> /\ Head(s) \in chars THEN LStripChars(Tail(s), chars) ELSE s

\* str.rstrip(chars)
RECURSIVE RStripChars(_, _)
RStripChars(s, chars) ==
    IF s # <<>> /\ s[Len(s)] \in chars
    THEN RStripChars(SubSeq(s, 1, Len(s) - 1), chars)
    ELSE s

\* str.strip()
Strip(s) == RStripChars(LStripChars(s, Whitespace), Whitespace)

\* s[i:].startswith(p), i counted from 1
MatchAt(s, p, i) ==
    /\ i + Len(p) - 1 <= Len(s)
    /\ SubSeq(s, i, i + Len(p) - 1) = p

\* s.startswith(p)
StartsWith(s, p) == MatchAt(s, p, 1)

\* p in s
Contains(s, p) == \E i \in 1..(Len(s) + 1) : MatchAt(s, p, i)

\* s.replace(old, new), old not empty: leftmost matches, not overlapping
RECURSIVE Replace(_, _, _)
Replace(s, old, new) ==
    IF s = <<>> THEN <<>>
    ELSE IF MatchAt(s, old, 1)
         THEN new \o Replace(SubSeq(s, Len(old) + 1, Len(s)), old, new)
         ELSE <<Head(s)>> \o Replace(Tail(s), old, new)

\* s.split(sep), sep not empty
RECURSIVE Split(_, _)
Split(s, sep) ==
    IF Contains(s, sep)
    THEN LET i == CHOOSE k \in 1..Len(s) :
                     /\ MatchAt(s, sep, k)
                     /\ \A j \in 1..(k - 1) : ~MatchAt(s, sep, j)
         IN  <<SubSeq(s, 1, i - 1)>> \o Split(SubSeq(s, i + Len(sep), Len(s)), sep)
    ELSE <<s>>

\* sep.join(parts)
RECURSIVE JoinWith(_, _)
JoinWith(parts, sep) ==
    IF parts = <<>> THEN <<>>
    ELSE IF Len(parts) = 1 THEN parts[1]
    ELSE parts[1] \o sep \o JoinWith(Tail(parts), sep)

-----------------------------------------------------------------------------
(* tools/safety.py: the command validator, and tools/executor.py:           *)
(* _handle_run_command, which hands what the validator accepts to a shell   *)

\* the backquote character, which a TLA+ string cannot hold
BackQuote == "backquote"

(* tools/safety.py, lines 5-14 *)
BLOCKED_PATTERNS ==
    << <<"r", "m", " ">>,    \* rm 
       <<"d", "e", "l", " ">>,    \* del 
       <<"r", "m", "d", "i", "r">>,    \* rmdir
       <<"r", "d", " ">>,    \* rd 
       <<"f", "o", "r", "m", "a", "t">>,    \* format
       <<"m", "k", "f", "s">>,    \* mkfs
       <<"s", "u", "d", "o">>,    \* sudo
       <<"s", "u", " ">>,    \* su 
       <<"c", "h", "m", "o", "d">>,    \* chmod
       <<"c", "h", "o", "w", "n">>,    \* chown
       <<"c", "u", "r", "l">>,    \* curl
       <<"w", "g", "e", "t">>,    \* wget
       <<"p", "i", "p", " ", "i", "n", "s", "t", "a", "l", "l">>,    \* pip install
       <<">", " ", "/", "d", "e", "v">>,    \* > /dev
       <<"|", " ", "r", "m">>,    \* | rm
       <<BackQuote>>,
       <<"$", "(">> >>    \* $(

(* tools/safety.py, lines 17-27 *)
ALLOWED_COMMANDS ==
    << <<"n", "p", "m", " ", "i", "n", "s", "t", "a", "l", "l">>,    \* npm install
       <<"n", "p", "m", " ", "r", "u", "n", " ", "d", "e", "v">>,    \* npm run dev
       <<"n", "p", "m", " ", "r", "u", "n", " ", "b", "u", "i", "l", "d">>,    \* npm run build
       <<"n", "p", "m", " ", "r", "u", "n", " ", "p", "r", "e", "v", "i", "e", "w">>,    \* npm run preview
       <<"n", "p", "m", " ", "s", "t", "a", "r", "t">>,    \* npm start
       <<"n", "p", "m", " ", "i", "n", "i", "t">>,    \* npm init
       <<"n", "p", "x", " ", "c", "r", "e", "a", "t", "e", "-", "v", "i", "t", "e">>,    \* npx create-vite
       <<"n", "p", "m", " ", "c", "r", "e", "a", "t", "e", " ", "v", "i", "t", "e">>,    \* npm create vite
       <<"n", "p", "x", " ", "v", "i", "t", "e", " ", "b", "u", "i", "l", "d">> >>    \* npx vite build

(* tools/safety.py, line 92: the prefixes allowed to a part of a chain *)
ChainAllowed ==
    ALLOWED_COMMANDS \o << <<"c", "d", " ">>, <<"l", "s">>, <<"d", "i", "r">> >>

(* tools/safety.py, line 30: the character class of _DANGEROUS_SHELL_CHARS *)
DangerousShellChars == {"|", ";", BackQuote, "$", "(", ")", "<", ">"}

(* tools/safety.py, line 84: the chaining operators *)
ChainOperators == { <<"&", "&">>, <<"|", "|">>, <<";">> }

NpmInstall == <<"n", "p", "m", " ", "i", "n", "s", "t", "a", "l", "l">>
NpmI == <<"n", "p", "m", " ", "i">>
Sep == <<"|", "S", "E", "P", "|">>

Range(f) == {f[i] : i \in DOMAIN f}

(* tools/safety.py: _is_safe_npm_install, lines 53-62 *)
IsSafeNpmInstall(p) ==
    LET part == Strip(p)
    IN  IF part \in {NpmInstall, NpmI} THEN TRUE
        ELSE IF StartsWith(part, NpmInstall \o <<" ">>) \/ StartsWith(part, NpmI \o <<" ">>)
             THEN FALSE
             ELSE TRUE

(* tools/safety.py: validate_command, line 86 *)
ChainParts(cmd_lower) ==
    Split(Replace(Replace(Replace(cmd_lower, <<"&", "&">>, Sep), <<"|", "|">>, Sep),
                  <<";">>, Sep),
          Sep)

(* tools/safety.py: validate_command, lines 88-113: does this part of a     *)
(* chain make the validator raise                                          *)
PartRaises(p) ==
    LET part == Strip(p)
    IN  IF part = <<>> THEN FALSE
        ELSE IF \E a \in Range(ChainAllowed) : StartsWith(part, a)
             THEN StartsWith(part, NpmInstall) /\ ~IsSafeNpmInstall(part)
             ELSE \/ \E pattern \in Range(BLOCKED_PATTERNS) : Contains(part, pattern)
                  \/ \E i \in 1..Len(part) : part[i] \in DangerousShellChars

(* tools/safety.py: validate_command, lines 65-123: TRUE when the call      *)
(* raises ValueError; otherwise it returns the command unchanged            *)
ValidateCommandRaises(command) ==
    LET cmd_lower == Strip(Lower(command))
        hits == {i \in DOMAIN ALLOWED_COMMANDS : StartsWith(cmd_lower, ALLOWED_COMMANDS[i])}
    IN  IF hits # {}
        THEN LET allowed == ALLOWED_COMMANDS[CHOOSE i \in hits : \A j \in hits : i <= j]
             IN  allowed = NpmInstall /\ ~IsSafeNpmInstall(cmd_lower)
        ELSE IF \E chain \in ChainOperators : Contains(cmd_lower, chain)
             THEN \E k \in DOMAIN ChainParts(cmd_lower) : PartRaises(ChainParts(cmd_lower)[k])
             ELSE \E pattern \in Range(BLOCKED_PATTERNS) : Contains(cmd_lower, pattern)

(* tools/executor.py: _handle_run_command, line 270:                        *)
(* re.sub(r'^cd\s+\S+\s*&&\s*', '', command).strip()                        *)
CdPrefixEnds(command) ==
    {e \in 1..Len(command) :
        \E a \in 3..e, b \in 4..e :
            /\ SubSeq(command, 1, 2) = <<"c", "d">>
            /\ a < b
            /\ \A i \in 3..a : command[i] \in Whitespace
            /\ \A i \in (a + 1)..b : command[i] \notin Whitespace
            /\ b + 2 <= e
            /\ \A i \in (b + 1)..(e - 2) : command[i] \in Whitespace
            /\ SubSeq(command, e - 1, e) = <<"&", "&">>}

CleanCommand(command) ==
    IF CdPrefixEnds(command) = {} THEN Strip(command)
    ELSE LET e == CHOOSE x \in CdPrefixEnds(command) : \A y \in CdPrefixEnds(command) : y <= x
         IN  Strip(SubSeq(command, e + 1, Len(command)))

\* longest chain of a command, in segments
MaxSegments == 2

\* the segments commands are made of
Segments ==
    { <<"n", "p", "m", " ", "i", "n", "s", "t", "a", "l", "l">>,    \* npm install
      <<"n", "p", "m", " ", "i", "n", "s", "t", "a", "l", "l", " ", "l", "o", "d", "a", "s", "h">>,    \* npm install lodash
      <<"n", "p", "m", " ", "i", " ", "l", "o", "d", "a", "s", "h">>,    \* npm i lodash
      <<"n", "p", "m", " ", "r", "u", "n", " ", "b", "u", "i", "l", "d">>,    \* npm run build
      <<"r", "m", " ", "-", "r", "f", " ", "x">>,    \* rm -rf x
      <<"c", "d", " ", "a", "p", "p">>,    \* cd app
      <<"l", "s", " ", "|", " ", "r", "m", " ", "-", "r", "f", " ", "x">>,    \* ls | rm -rf x
      <<"e", "c", "h", "o", " ", "h", "i">>,    \* echo hi
      <<"S", "u", "d", "o", " ", "l", "s">> }    \* Sudo ls

\* what joins the segments of a command
Separators ==
    { <<" ", "&", "&", " ">>,    \*  && 
      <<" ", "|", "|", " ">>,    \*  || 
      <<";", " ">> }    \* ; 

RECURSIVE CommandsOf(_)
CommandsOf(n) ==
    IF n = 1 THEN Segments
    ELSE {c \o sep \o seg : c \in CommandsOf(n - 1), sep \in Separators, seg \in Segments}

Commands == UNION {CommandsOf(n) : n \in 1..MaxSegments}

InitCommand ==
    /\ RunIdle
    /\ SharedIdle
    /\ tool_pc = "ready"
    /\ tool_in \in Commands
    /\ tool_out = "none"
    /\ effects = <<>>

(* tools/executor.py: _handle_run_command, lines 259-330: the command is    *)
(* validated, and what the validator returns goes to a shell                *)
HandleRunCommand ==
    /\ tool_pc = "ready"
    /\ tool_pc' = "done"
    /\ IF ValidateCommandRaises(tool_in)
       THEN tool_out' = "ValueError" /\ UNCHANGED effects
       ELSE tool_out' = "output" /\ effects' = Append(effects, CleanCommand(tool_in))
    /\ UNCHANGED tool_in
    /\ UNCHANGED <<runvars, sharedvars>>

NextCommand == HandleRunCommand

SpecCommand == InitCommand /\ [][NextCommand]_vars

-----------------------------------------------------------------------------
(* tools/executor.py: the output-path resolver and _handle_create_file;     *)
(* tools/safety.py: validate_path. Paths are POSIX paths.                  *)

(* tools/executor.py, line 11: the project root *)
BASE_DIR == <<"/", "a", "p", "p">>

Slash == <<"/">>
OutputSlash == <<"o", "u", "t", "p", "u", "t", "/">>

(* tools/executor.py: _enforce_output_dir, line 91 *)
Normalized(path) == LStripChars(Replace(path, <<"\\">>, Slash), {".", "/"})

\* a plausible slip: the prefix is written with a leading slash
HasOutputPrefixWithSlash(normalized) == StartsWith(normalized, Slash \o OutputSlash)

(* tools/executor.py: _enforce_output_dir, line 94 *)
HasOutputPrefix(normalized) == StartsWith(normalized, OutputSlash)

(* tools/executor.py: _enforce_output_dir, lines 89-119; project is         *)
(* _current_project, the empty string when there is none                   *)
EnforceOutputDir(path, project) ==
    LET normalized == Normalized(path)
        parts == Split(normalized, Slash)
    IN  IF HasOutputPrefix(normalized)
        THEN IF Len(parts) >= 3 THEN normalized
             ELSE IF project # <<>> /\ Len(parts) = 2
                  THEN OutputSlash \o project \o Slash \o parts[2]
                  ELSE normalized
        ELSE IF project # <<>> /\ StartsWith(normalized, project \o Slash)
             THEN OutputSlash \o normalized
             ELSE IF project # <<>>
                  THEN OutputSlash \o project \o Slash \o normalized
                  ELSE OutputSlash \o normalized

\* os.path.normpath of an absolute path: the components that remain
RECURSIVE Collapse(_, _)
Collapse(comps, acc) ==
    IF comps = <<>> THEN acc
    ELSE LET c == Head(comps)
         IN  IF c = <<>> \/ c = <<".">> THEN Collapse(Tail(comps), acc)
             ELSE IF c = <<".", ".">>
                  THEN Collapse(Tail(comps),
                                IF acc = <<>> THEN acc ELSE SubSeq(acc, 1, Len(acc) - 1))
                  ELSE Collapse(Tail(comps), Append(acc, c))

\* os.path.abspath of an absolute path
Abspath(path) == Slash \o JoinWith(Collapse(Split(path, Slash), <<>>), Slash)

(* tools/safety.py: validate_path, lines 38-41 *)
Resolved(path, base_dir) ==
    IF ~StartsWith(path, Slash)
    THEN Abspath(base_dir \o Slash \o path)
    ELSE Abspath(path)

(* tools/safety.py: validate_path, lines 43-48: TRUE when the call raises   *)
(* ValueError; otherwise it returns Resolved(path, base_dir)               *)
ValidatePathRaises(path, base_dir) ==
    ~StartsWith(Resolved(path, base_dir), Abspath(base_dir))

\* longest requested path, in segments
MaxPathSegments == 3

\* the active project of the runs, and the segments requested paths are made of
Quiz == <<"q", "u", "i", "z">>
PathSegments ==
    { <<"o", "u", "t", "p", "u", "t">>,    \* output
      <<"q", "u", "i", "z">>,    \* quiz
      <<"o", "t", "h", "e", "r">>,    \* other
      <<".", ".">>,    \* ..
      <<".">>,    \* .
      <<".", "e", "n", "v">>,    \* .env
      <<"a", "p", "p", "2">> }    \* app2

PathSeparators == {Slash, <<"\\">>}

RECURSIVE PathsOf(_, _)
PathsOf(n, sep) ==
    IF n = 1 THEN PathSegments
    ELSE {q \o sep \o seg : q \in PathsOf(n - 1, sep), seg \in PathSegments}

Paths == UNION {PathsOf(n, sep) : n \in 1..MaxPathSegments, sep \in PathSeparators}

InitPath ==
    /\ RunIdle
    /\ SharedIdle
    /\ tool_pc = "ready"
    /\ tool_in \in [path : Paths, project : {Quiz, <<>>}]
    /\ tool_out = [raised |-> FALSE, raw |-> <<>>]
    /\ effects = <<>>

(* tools/executor.py: _handle_create_file, line 125: open(path, "w") raises *)
(* IsADirectoryError on the project root, a directory that exists          *)
OpenRaises(path) == path = BASE_DIR

(* tools/executor.py: _handle_create_file, lines 122-129: the path is       *)
(* resolved and validated, then the file is written at the absolute path   *)
HandleCreateFile ==
    LET raw_path == EnforceOutputDir(tool_in.path, tool_in.project)
    IN  /\ tool_pc = "ready"
        /\ tool_pc' = "done"
        /\ IF ValidatePathRaises(raw_path, BASE_DIR) \/ OpenRaises(Resolved(raw_path, BASE_DIR))
           THEN /\ tool_out' = [raised |-> TRUE, raw |-> raw_path]
                /\ UNCHANGED effects
           ELSE /\ tool_out' = [raised |-> FALSE, raw |-> raw_path]
                /\ effects' = Append(effects, Resolved(raw_path, BASE_DIR))
        /\ UNCHANGED tool_in
        /\ UNCHANGED <<runvars, sharedvars>>

NextPath == HandleCreateFile

SpecPath == InitPath /\ [][NextPath]_vars

-----------------------------------------------------------------------------
(* tools/executor.py: execute_tool, the dispatcher. An argument record is   *)
(* the set of its keys; a call that passes something else than a dict has   *)
(* is_dict FALSE.                                                           *)

(* tools/executor.py: execute_tool, lines 48-63: the names of the handlers  *)
handlers ==
    {"create_file", "create_files", "read_file", "list_files", "run_command",
     "search_memory", "save_memory", "plan_tasks", "preview_app", "ask_user",
     "fetch_figma_design", "validate_screenshots", "analyze_flow",
     "fetch_figma_mcp"}

(* tools/executor.py: execute_tool, lines 70-80 *)
required_keys ==
    [create_file |-> {"path", "content"},
     read_file |-> {"path"},
     list_files |-> {"directory"},
     run_command |-> {"command"},
     search_memory |-> {"query"},
     save_memory |-> {"category", "key", "data"},
     plan_tasks |-> {"tasks"},
     preview_app |-> {"path"},
     validate_screenshots |-> {"project_name"}]

(* tools/definitions.py: the "required" list of each tool's schema          *)
SchemaRequired ==
    [create_file |-> {"path", "content"},
     create_files |-> {"files"},
     read_file |-> {"path"},
     list_files |-> {"directory"},
     run_command |-> {"command"},
     search_memory |-> {"query"},
     save_memory |-> {"category", "key", "data"},
     plan_tasks |-> {"tasks"},
     preview_app |-> {"path"},
     ask_user |-> {"question"},
     check_existing_projects |-> {},
     validate_screenshots |-> {"project_name"},
     fetch_figma_design |-> {}]

\* the names a model may call: every handler, every declared tool, and one
\* name that is neither
ToolNames == handlers \cup DOMAIN SchemaRequired \cup {"deploy_app"}

\* the keys an argument record of a call may hold
KeysFor(name) ==
    (IF name \in DOMAIN SchemaRequired THEN SchemaRequired[name] ELSE {}) \cup {"note"}

ErrorJson(message, name) ==
    [raised |-> FALSE, error |-> TRUE, message |-> message, tool |-> name]

(* tools/executor.py: _handle_create_files, lines 134-136, and the other    *)
(* handlers: what a handler returns is a plain string                      *)
HandlerResult(name, keys) ==
    [raised |-> FALSE, error |-> FALSE,
     message |-> IF name = "create_files" /\ "files" \notin keys
                 THEN "ERROR: No files provided"
                 ELSE "handler output",
     tool |-> name]

\* a plausible slip: the lookup result is not tested
HandlerMissingNotTested(name) == FALSE

(* tools/executor.py: execute_tool, lines 65-66 *)
HandlerMissing(name) == name \notin handlers

InitExec ==
    /\ RunIdle
    /\ SharedIdle
    /\ tool_pc = "ready"
    /\ \E n \in ToolNames, d \in BOOLEAN :
          \E k \in SUBSET KeysFor(n) :
              tool_in = [name |-> n, keys |-> k, is_dict |-> d]
    /\ tool_out = [raised |-> FALSE, error |-> FALSE, message |-> "", tool |-> ""]
    /\ effects = <<>>

(* tools/executor.py: execute_tool, lines 39-86 *)
ExecuteTool ==
    LET name == tool_in.name
        missing == IF name \in DOMAIN required_keys
                   THEN required_keys[name] \ tool_in.keys
                   ELSE {}
    IN  /\ tool_pc = "ready"
        /\ tool_pc' = "done"
        /\ IF ~tool_in.is_dict
           THEN tool_out' = ErrorJson("Invalid inputs", name) /\ UNCHANGED effects
           ELSE IF HandlerMissing(name)
           THEN tool_out' = ErrorJson("Unknown tool", name) /\ UNCHANGED effects
           ELSE IF missing # {}
           THEN tool_out' = ErrorJson("Missing required keys", name) /\ UNCHANGED effects
           ELSE IF name \notin handlers
           THEN \* calling None raises TypeError
                /\ tool_out' = [raised |-> TRUE, error |-> FALSE,
                                message |-> "TypeError", tool |-> name]
                /\ UNCHANGED effects
           ELSE /\ tool_out' = HandlerResult(name, tool_in.keys)
                /\ effects' = Append(effects, name)
        /\ UNCHANGED tool_in
        /\ UNCHANGED <<runvars, sharedvars>>

NextExec == ExecuteTool

SpecExec == InitExec /\ [][NextExec]_vars

-----------------------------------------------------------------------------
(* tools/executor.py: _handle_create_files, the multi-file write. An item   *)
(* of the batch is a dict; has_path and has_content say whether it holds    *)
(* the keys "path" and "content".                                           *)

\* largest batch, in files
MaxBatch == 3

\* the paths the items of a batch request: one that is written, one that
\* validate_path rejects, one that open() rejects (the project root)
BatchPaths ==
    { <<"a", ".", "j", "s">>,    \* a.js
      <<"o", "u", "t", "p", "u", "t", "/", ".", ".", "/", ".", ".", "/", "x">>,    \* output/../../x
      <<"o", "u", "t", "p", "u", "t", "/", ".", ".">> }    \* output/..

BatchItems ==
    {[path |-> q, has_path |-> TRUE, has_content |-> c] : q \in BatchPaths, c \in BOOLEAN}
        \cup {[path |-> <<>>, has_path |-> FALSE, has_content |-> TRUE]}

(* tools/executor.py: _handle_create_files, line 150: f.get('path', '???')  *)
FailedName(f) == IF f.has_path THEN f.path ELSE <<"?", "?", "?">>

(* tools/executor.py: _handle_create_files, lines 142-148: the try block of *)
(* one item. opened is TRUE when open(path, "w") has created or truncated   *)
(* the file, failed is TRUE when the block raised                           *)
WriteItem(f, project) ==
    LET raw_path == EnforceOutputDir(f.path, project)
        path == Resolved(raw_path, BASE_DIR)
    IN  IF ~f.has_path
        THEN [failed |-> TRUE, opened |-> FALSE, raw |-> <<>>, path |-> <<>>]
        ELSE IF ValidatePathRaises(raw_path, BASE_DIR) \/ OpenRaises(path)
        THEN [failed |-> TRUE, opened |-> FALSE, raw |-> raw_path, path |-> path]
        ELSE [failed |-> ~f.has_content, opened |-> TRUE, raw |-> raw_path, path |-> path]

\* a plausible slip: the first failure ends the batch
AbandonAfterFailure(rest) == <<>>

(* tools/executor.py: _handle_create_files, lines 149-150: the except       *)
(* clause records the failure and the loop goes on with the next item      *)
ContinueAfterFailure(rest) == rest

(* tools/executor.py: _handle_create_files, lines 140-150: the loop; acc    *)
(* holds results, errors and the files opened for writing                  *)
RECURSIVE WriteBatch(_, _, _)
WriteBatch(files, project, acc) ==
    IF files = <<>> THEN acc
    ELSE LET f == Head(files)
             w == WriteItem(f, project)
             written == IF w.opened THEN Append(acc.written, w.path) ELSE acc.written
         IN  IF w.failed
             THEN WriteBatch(ContinueAfterFailure(Tail(files)), project,
                             [results |-> acc.results,
                              errors |-> Append(acc.errors, FailedName(f)),
                              written |-> written])
             ELSE WriteBatch(Tail(files), project,
                             [results |-> Append(acc.results, w.raw),
                              errors |-> acc.errors,
                              written |-> written])

NoBatch == [results |-> <<>>, errors |-> <<>>, written |-> <<>>]

InitBatch ==
    /\ RunIdle
    /\ SharedIdle
    /\ tool_pc = "ready"
    /\ tool_in \in [files : SeqsUpTo(BatchItems, MaxBatch), project : {Quiz}]
    /\ tool_out = [no_files |-> FALSE, created |-> 0, failed |-> 0,
                   results |-> <<>>, errors |-> <<>>]
    /\ effects = <<>>

(* tools/executor.py: _handle_create_files, lines 132-159: the summary      *)
(* gives the number of results and, when there are errors, their number,   *)
(* then the result lines and the error lines                               *)
HandleCreateFiles ==
    LET done == WriteBatch(tool_in.files, tool_in.project, NoBatch)
    IN  /\ tool_pc = "ready"
        /\ tool_pc' = "done"
        /\ IF tool_in.files = <<>>
           THEN /\ tool_out' = [no_files |-> TRUE, created |-> 0, failed |-> 0,
                                results |-> <<>>, errors |-> <<>>]
                /\ UNCHANGED effects
           ELSE /\ tool_out' = [no_files |-> FALSE,
                                created |-> Len(done.results), failed |-> Len(done.errors),
                                results |-> done.results, errors |-> done.errors]
                /\ effects' = effects \o done.written
        /\ UNCHANGED tool_in
        /\ UNCHANGED <<runvars, sharedvars>>

NextBatch == HandleCreateFiles

SpecBatch == InitBatch /\ [][NextBatch]_vars

-----------------------------------------------------------------------------
(* tools/executor.py: the background dev server. Several handler threads    *)
(* (sessions) call run_command with a dev-server command, or preview_app.   *)
(* A with _dev_server_lock block is one atomic step.                        *)

\* concurrent sessions, and server-starting calls of each
MaxSessions == 2
MaxCalls == 2

Sessions == 1..MaxSessions

\* the process that the n-th call of session t launches
Pid(t, n) == (t - 1) * MaxCalls + n

Alive(pid) == \E p \in procs : p.pid = pid

\* a launched server listens on port 5173 when that port is free, and on
\* the next free port otherwise
Launched(pid) == [pid |-> pid, on_port |-> ~\E p \in procs : p.on_port]

InitServer ==
    /\ RunIdle
    /\ ToolsIdle
    /\ threads = [t \in Sessions |-> [pc |-> "idle", calls |-> 0]]
    /\ dev_server_proc = NoProcess
    /\ procs = {}
    /\ store = <<>>
    /\ locks = <<>>
    /\ clock = 0

ServerStep(t, pc_next, calls_next) ==
    /\ threads' = [threads EXCEPT ![t] = [pc |-> pc_next, calls |-> calls_next]]
    /\ UNCHANGED <<runvars, toolvars, store, locks, clock>>

(* _handle_run_command, lines 259-276: a command that matches bg_patterns   *)
RunDevCommand(t) ==
    /\ threads[t].pc = "idle"
    /\ threads[t].calls < MaxCalls
    /\ ServerStep(t, "kill", threads[t].calls + 1)
    /\ UNCHANGED <<dev_server_proc, procs>>

(* kill_dev_server, lines 233-251: the tracked process is terminated when   *)
(* it is alive, then _kill_port kills what listens on the port             *)
KillDevServer(t) ==
    /\ threads[t].pc = "kill"
    /\ LET tracked_alive == dev_server_proc # NoProcess /\ Alive(dev_server_proc)
       IN  /\ dev_server_proc' = IF tracked_alive THEN NoProcess ELSE dev_server_proc
           /\ procs' = {p \in procs : ~p.on_port /\ ~(tracked_alive /\ p.pid = dev_server_proc)}
    /\ ServerStep(t, "popen", threads[t].calls)

(* _handle_run_command, lines 283-291: the launch, tracked in the global    *)
PopenDevServer(t) ==
    /\ threads[t].pc = "popen"
    /\ procs' = procs \cup {Launched(Pid(t, threads[t].calls))}
    /\ dev_server_proc' = Pid(t, threads[t].calls)
    /\ ServerStep(t, "verify", threads[t].calls)

(* _handle_run_command, lines 307-308: Popen raised *)
PopenFails(t) ==
    /\ threads[t].pc = "popen"
    /\ ServerStep(t, "idle", threads[t].calls)
    /\ UNCHANGED <<dev_server_proc, procs>>

(* _handle_run_command, lines 293-306: after the sleep the tracked process  *)
(* is forgotten when it has exited                                         *)
VerifyDevServer(t) ==
    /\ threads[t].pc = "verify"
    /\ dev_server_proc' = IF dev_server_proc # NoProcess /\ ~Alive(dev_server_proc)
                          THEN NoProcess
                          ELSE dev_server_proc
    /\ ServerStep(t, "idle", threads[t].calls)
    /\ UNCHANGED procs

(* _handle_preview_app, lines 394-419, on a project with a package.json:    *)
(* the server is launched and not tracked                                  *)
PreviewApp(t) ==
    /\ threads[t].pc = "idle"
    /\ threads[t].calls < MaxCalls
    /\ procs' = procs \cup {Launched(Pid(t, threads[t].calls + 1))}
    /\ ServerStep(t, "idle", threads[t].calls + 1)
    /\ UNCHANGED dev_server_proc

(* _handle_preview_app, lines 395-403: the early error returns *)
PreviewAppNotFound(t) ==
    /\ threads[t].pc = "idle"
    /\ threads[t].calls < MaxCalls
    /\ ServerStep(t, "idle", threads[t].calls + 1)
    /\ UNCHANGED <<dev_server_proc, procs>>

\* a dev server exits on its own
DevServerExits(p) ==
    /\ p \in procs
    /\ procs' = procs \ {p}
    /\ UNCHANGED <<runvars, toolvars, threads, dev_server_proc, store, locks, clock>>

NextServer ==
    \/ \E t \in Sessions : RunDevCommand(t)
    \/ \E t \in Sessions : KillDevServer(t)
    \/ \E t \in Sessions : PopenDevServer(t)
    \/ \E t \in Sessions : PopenFails(t)
    \/ \E t \in Sessions : VerifyDevServer(t)
    \/ \E t \in Sessions : PreviewApp(t)
    \/ \E t \in Sessions : PreviewAppNotFound(t)
    \/ \E p \in procs : DevServerExits(p)

SpecServer == InitServer /\ [][NextServer]_vars

-----------------------------------------------------------------------------
(* memory/manager.py: the memory store. One MemoryManager serves all the    *)
(* sessions of the process (web/server.py, line 67; app.py, line 135).      *)
(* A backing file is "ok" (a JSON object), "corrupt" (unparsable) or        *)
(* "partial" (opened for writing and not yet dumped, hence unparsable).     *)

(* memory/manager.py, line 19 *)
MAX_SESSIONS == 50

\* concurrent callers of the memory; each performs one operation
MaxCallers == 2

Callers == 1..MaxCallers

(* memory/manager.py, lines 12-17: the categories the callers use *)
Categories == {"projects", "knowledge", "sessions"}

(* memory/manager.py: search, lines 70-74 *)
SearchOrder(category) ==
    IF category = "all" THEN <<"projects", "knowledge">> ELSE <<category>>

\* the key a caller saves under, and the key of a session log entry
UserKey(t) == [name |-> "key", n |-> t]
SessionKey(now) == [name |-> "session", n |-> now]

File(state, entries) == [state |-> state, entries |-> entries]

\* a plausible slip: only nothing is caught
LoadCatchesNothing(file) == FALSE

(* memory/manager.py: _load, lines 35-43: every exception is caught *)
LoadCatches(file) == TRUE

(* memory/manager.py: _load, lines 33-43: the dict read from a file *)
Load(file) == IF file.state = "ok" THEN file.entries ELSE {}

LoadRaises(file) == file.state # "ok" /\ ~LoadCatches(file)

(* memory/manager.py: save, lines 53-56, and save_session, lines 134-140:   *)
(* store[key] = {...} replaces the entry of the key                        *)
Put(entries, key, now) ==
    {e \in entries : e.key # key} \cup {[key |-> key, saved_at |-> now]}

(* memory/manager.py: save_session, lines 143-150: the oldest entries over  *)
(* the cap are deleted                                                     *)
Pruned(entries) ==
    IF Cardinality(entries) > MAX_SESSIONS
    THEN LET excess == Cardinality(entries) - MAX_SESSIONS
         IN  {e \in entries :
                Cardinality({o \in entries : o.saved_at < e.saved_at}) >= excess}
    ELSE entries

IdleCaller ==
    [pc |-> "idle", op |-> "none", todo |-> <<>>, key |-> UserKey(0), local |-> {},
     seen_partial |-> FALSE, seen_corrupt |-> FALSE, saved |-> {}, ops |-> 0]

\* a plausible slip: the lock is not waited for
LockNotWaitedFor(category) == TRUE

(* memory/manager.py, lines 51, 77 and 129: with self._locks[category]      *)
LockFree(category) == locks[category] = 0

MemoryStep(t, caller) ==
    /\ threads' = [threads EXCEPT ![t] = caller]
    /\ UNCHANGED <<runvars, toolvars, dev_server_proc, procs>>

(* MemoryManager.save(category, key, data) is called *)
SaveCall(t, category) ==
    /\ threads[t].pc = "idle"
    /\ threads[t].ops = 0
    /\ MemoryStep(t, [threads[t] EXCEPT !.pc = "acquire", !.op = "save",
                                        !.todo = <<category>>, !.key = UserKey(t),
                                        !.ops = @ + 1])
    /\ UNCHANGED <<store, locks, clock>>

(* MemoryManager.save_session is called *)
SaveSessionCall(t) ==
    /\ threads[t].pc = "idle"
    /\ threads[t].ops = 0
    /\ MemoryStep(t, [threads[t] EXCEPT !.pc = "acquire", !.op = "save_session",
                                        !.todo = <<"sessions">>, !.ops = @ + 1])
    /\ UNCHANGED <<store, locks, clock>>

(* MemoryManager.search(query, category), also through get_relevant_context *)
SearchCall(t, category) ==
    /\ threads[t].pc = "idle"
    /\ threads[t].ops = 0
    /\ MemoryStep(t, [threads[t] EXCEPT !.pc = "acquire", !.op = "search",
                                        !.todo = SearchOrder(category), !.ops = @ + 1])
    /\ UNCHANGED <<store, locks, clock>>

(* lines 51, 77, 129: the lock of the category is taken *)
Acquire(t) ==
    /\ threads[t].pc = "acquire"
    /\ LockFree(Head(threads[t].todo))
    /\ locks' = [locks EXCEPT ![Head(threads[t].todo)] = t]
    /\ MemoryStep(t, [threads[t] EXCEPT !.pc = "load"])
    /\ UNCHANGED <<store, clock>>

(* lines 52, 78, 130: the file is read; an exception that _load does not    *)
(* catch leaves the with block, which releases the lock                    *)
LoadStore(t) ==
    LET category == Head(threads[t].todo)
        file == store[category]
    IN  /\ threads[t].pc = "load"
        /\ IF LoadRaises(file)
           THEN /\ MemoryStep(t, [threads[t] EXCEPT !.pc = "raised"])
                /\ locks' = [locks EXCEPT ![category] = 0]
           ELSE /\ MemoryStep(t, [threads[t] EXCEPT
                       !.pc = IF threads[t].op = "search" THEN "release" ELSE "modify",
                       !.local = Load(file),
                       !.seen_partial = @ \/ file.state = "partial",
                       !.seen_corrupt = @ \/ file.state = "corrupt"])
                /\ UNCHANGED locks
        /\ UNCHANGED <<store, clock>>

(* lines 53-56 and 133-150: the entry is put into the dict read, with the   *)
(* time of the call; save_session prunes                                   *)
Modify(t) ==
    /\ threads[t].pc = "modify"
    /\ clock' = clock + 1
    /\ MemoryStep(t, [threads[t] EXCEPT
           !.pc = "open",
           !.key = IF threads[t].op = "save_session" THEN SessionKey(clock') ELSE @,
           !.local = IF threads[t].op = "save_session"
                     THEN Pruned(Put(@, SessionKey(clock'), clock'))
                     ELSE Put(@, threads[t].key, clock')])
    /\ UNCHANGED <<store, locks>>

(* _save_file, line 46: open(..., "w") truncates the file *)
OpenForWrite(t) ==
    /\ threads[t].pc = "open"
    /\ store' = [store EXCEPT ![Head(threads[t].todo)] = File("partial", {})]
    /\ MemoryStep(t, [threads[t] EXCEPT !.pc = "dump"])
    /\ UNCHANGED <<locks, clock>>

(* _save_file, line 47: json.dump writes the whole dict *)
Dump(t) ==
    /\ threads[t].pc = "dump"
    /\ store' = [store EXCEPT ![Head(threads[t].todo)] = File("ok", threads[t].local)]
    /\ MemoryStep(t, [threads[t] EXCEPT !.pc = "release"])
    /\ UNCHANGED <<locks, clock>>

(* the with block ends; search goes on with its next category *)
Release(t) ==
    LET category == Head(threads[t].todo)
        rest == Tail(threads[t].todo)
    IN  /\ threads[t].pc = "release"
        /\ locks' = [locks EXCEPT ![category] = 0]
        /\ MemoryStep(t, [threads[t] EXCEPT
               !.pc = IF rest = <<>> THEN "idle" ELSE "acquire",
               !.todo = rest,
               !.saved = IF threads[t].op = "search" THEN @
                         ELSE @ \cup {[category |-> category, key |-> threads[t].key]}])
        /\ UNCHANGED <<store, clock>>

\* the files the callers find: each one empty, holding an entry, or corrupt
InitialFiles == {File("ok", {}), File("ok", {[key |-> UserKey(0), saved_at |-> 0]}),
                 File("corrupt", {})}

InitMemory ==
    /\ RunIdle
    /\ ToolsIdle
    /\ threads = [t \in Callers |-> IdleCaller]
    /\ dev_server_proc = NoProcess
    /\ procs = {}
    /\ store \in [Categories -> InitialFiles]
    /\ store["knowledge"] = File("ok", {})
    /\ store["sessions"].entries = {}
    /\ locks = [c \in Categories |-> 0]
    /\ clock = 0

NextMemory ==
    \/ \E t \in Callers, c \in {"projects", "sessions"} : SaveCall(t, c)
    \/ \E t \in Callers : SaveSessionCall(t)
    \/ \E t \in Callers, c \in {"projects", "sessions", "all"} : SearchCall(t, c)
    \/ \E t \in Callers : Acquire(t)
    \/ \E t \in Callers : LoadStore(t)
    \/ \E t \in Callers : Modify(t)
    \/ \E t \in Callers : OpenForWrite(t)
    \/ \E t \in Callers : Dump(t)
    \/ \E t \in Callers : Release(t)

SpecMemory == InitMemory /\ [][NextMemory]_vars

\* the session log after n sessions, one a second
SessionLog(n) == {[key |-> SessionKey(i), saved_at |-> i] : i \in 1..n}

\* the memory when the session log is one short of its cap, or at it
InitSessions ==
    /\ RunIdle
    /\ ToolsIdle
    /\ threads = [t \in Callers |-> IdleCaller]
    /\ dev_server_proc = NoProcess
    /\ procs = {}
    /\ \E n \in {MAX_SESSIONS - 1, MAX_SESSIONS} :
          /\ store = [c \in Categories |->
                        IF c = "sessions" THEN File("ok", SessionLog(n)) ELSE File("ok", {})]
          /\ clock = n
    /\ locks = [c \in Categories |-> 0]

SpecSessions == InitSessions /\ [][NextMemory]_vars

-----------------------------------------------------------------------------
(* memory/manager.py: search, the matching of a query against the entries.  *)
(* An entry is saved, then a query that contains its key is searched.       *)

\* str.split() without argument: the maximal runs of non-whitespace
RECURSIVE SplitWords(_)
SplitWords(s) ==
    LET t == LStripChars(s, Whitespace)
    IN  IF t = <<>> THEN <<>>
        ELSE LET ends == {i \in 1..Len(t) : i = Len(t) \/ t[i + 1] \in Whitespace}
                 e == CHOOSE i \in ends : \A j \in ends : i <= j
             IN  <<SubSeq(t, 1, e)>> \o SplitWords(SubSeq(t, e + 1, Len(t)))

(* memory/manager.py: search, line 66 *)
QueryWords(query) == {Lower(w) : w \in {x \in Range(SplitWords(query)) : Len(x) > 1}}

\* json.dumps(data) of the data saved, the empty object
DumpedData == <<"{", "}">>

(* memory/manager.py: search, line 80 *)
Searchable(key) == Lower(key \o <<" ">> \o DumpedData)

(* memory/manager.py: search, lines 59-99: the entries returned, as a set   *)
(* (the list is ordered by score); entries holds the saved category-key     *)
(* pairs                                                                    *)
Search(query, category, entries) ==
    IF QueryWords(query) = {} THEN {}
    ELSE {e \in entries :
            /\ e.category \in Range(SearchOrder(category))
            /\ \E w \in QueryWords(query) : Contains(Searchable(e.key), w)}

\* the keys saved, and what a query puts before and after the key
SavedKeys ==
    { <<"q", "u", "i", "z">>,    \* quiz
      <<"Q", "u", "i", "z", " ", "A", "p", "p">>,    \* Quiz App
      <<"a">> }    \* a
QueryPrefixes ==
    { <<>>,    \* 
      <<"o", "p", "e", "n", " ">> }    \* open 
QuerySuffixes ==
    { <<>>,    \* 
      <<" ", "n", "o", "w">>,    \*  now
      <<"?">> }    \* ?

InitSearch ==
    /\ RunIdle
    /\ SharedIdle
    /\ tool_pc = "ready"
    /\ \E c \in Categories, k \in SavedKeys, pre \in QueryPrefixes, suf \in QuerySuffixes :
          \E sc \in {c, "all"} :
             tool_in = [category |-> c, key |-> k, query |-> pre \o k \o suf,
                        search_category |-> sc]
    /\ tool_out = {}
    /\ effects = {}

(* MemoryManager.save(category, key, data), lines 49-57 *)
SaveEntry ==
    /\ tool_pc = "ready"
    /\ tool_pc' = "saved"
    /\ effects' = effects \cup {[category |-> tool_in.category, key |-> tool_in.key]}
    /\ UNCHANGED <<tool_in, tool_out>>
    /\ UNCHANGED <<runvars, sharedvars>>

(* MemoryManager.search(query, category), lines 59-99 *)
SearchEntries ==
    /\ tool_pc = "saved"
    /\ tool_pc' = "done"
    /\ tool_out' = Search(tool_in.query, tool_in.search_category, effects)
    /\ UNCHANGED <<tool_in, effects>>
    /\ UNCHANGED <<runvars, sharedvars>>

NextSearch ==
    \/ SaveEntry
    \/ SearchEntries

SpecSearch == InitSearch /\ [][NextSearch]_vars

-----------------------------------------------------------------------------
(* figma/flow_analyzer.py: the transitions of a flow, from the button texts *)
(* of its screens.  A pattern \bw\b is the text w between word boundaries;  *)
(* a pattern with an optional character stands twice, with and without it.  *)

MaxScreens == 3

FORWARD_PATTERNS ==
    << <<"s", "t", "a", "r", "t">>,    \* start
       <<"b", "e", "g", "i", "n">>,    \* begin
       <<"g", "e", "t", " ", "s", "t", "a", "r", "t", "e", "d">>,    \* get started
       <<"n", "e", "x", "t">>,    \* next
       <<"c", "o", "n", "t", "i", "n", "u", "e">>,    \* continue
       <<"p", "l", "a", "y">>,    \* play
       <<"g", "o">>,    \* go
       <<"l", "e", "t", "'", "s", " ", "g", "o">>,    \* let's go
       <<"l", "e", "t", "s", " ", "g", "o">>,    \* lets go
       <<"t", "a", "k", "e", " ", "q", "u", "i", "z">> >>    \* take quiz

BACKWARD_PATTERNS ==
    << <<"b", "a", "c", "k">>,    \* back
       <<"p", "r", "e", "v", "i", "o", "u", "s">>,    \* previous
       <<"r", "e", "t", "u", "r", "n">> >>    \* return

SUBMIT_PATTERNS ==
    << <<"s", "u", "b", "m", "i", "t">>,    \* submit
       <<"f", "i", "n", "i", "s", "h">>,    \* finish
       <<"c", "o", "m", "p", "l", "e", "t", "e">>,    \* complete
       <<"d", "o", "n", "e">>,    \* done
       <<"s", "e", "e", " ", "r", "e", "s", "u", "l", "t">>,    \* see result
       <<"s", "e", "e", " ", "r", "e", "s", "u", "l", "t", "s">>,    \* see results
       <<"s", "h", "o", "w", " ", "r", "e", "s", "u", "l", "t">>,    \* show result
       <<"s", "h", "o", "w", " ", "r", "e", "s", "u", "l", "t", "s">>,    \* show results
       <<"v", "i", "e", "w", " ", "r", "e", "s", "u", "l", "t">>,    \* view result
       <<"v", "i", "e", "w", " ", "r", "e", "s", "u", "l", "t", "s">> >>    \* view results

RESTART_PATTERNS ==
    << <<"t", "r", "y", " ", "a", "g", "a", "i", "n">>,    \* try again
       <<"r", "e", "s", "t", "a", "r", "t">>,    \* restart
       <<"r", "e", "t", "a", "k", "e">>,    \* retake
       <<"p", "l", "a", "y", " ", "a", "g", "a", "i", "n">>,    \* play again
       <<"h", "o", "m", "e">>,    \* home
       <<"r", "e", "s", "e", "t">> >>    \* reset

\* the characters \w matches
WordChars ==
    Range(LowerCase) \cup Range(UpperCase)
        \cup {"0", "1", "2", "3", "4", "5", "6", "7", "8", "9", "_"}

\* re.search(r"\bw\b", text), text in lower case, w beginning and ending
\* with a word character
SearchWord(w, text) ==
    \E i \in 1..(Len(text) - Len(w) + 1) :
        /\ \A j \in 1..Len(w) : text[i + j - 1] = w[j]
        /\ i = 1 \/ text[i - 1] \notin WordChars
        /\ i + Len(w) > Len(text) \/ text[i + Len(w)] \notin WordChars

\* one for-loop of _match_button_target: some pattern of the family is found,
\* whatever the case of the letters (re.IGNORECASE)
FamilyMatches(patterns, text) ==
    LET low == Lower(text)
    IN  \E k \in DOMAIN patterns : SearchWord(patterns[k], low)

\* the value None of a target
NoTarget == -1

\* a family placed before the forward patterns decides first
MatchButtonTargetBackwardFirst(btn_text, current_idx, total) ==
    IF FamilyMatches(BACKWARD_PATTERNS, btn_text)
    THEN IF current_idx > 0 THEN current_idx - 1 ELSE NoTarget
    ELSE IF FamilyMatches(FORWARD_PATTERNS, btn_text)
    THEN IF current_idx + 1 < total THEN current_idx + 1 ELSE NoTarget
    ELSE IF FamilyMatches(SUBMIT_PATTERNS, btn_text) THEN total - 1
    ELSE IF FamilyMatches(RESTART_PATTERNS, btn_text) THEN 0
    ELSE NoTarget

\* a target past an end is moved to the end
MatchButtonTargetClamped(btn_text, current_idx, total) ==
    IF FamilyMatches(FORWARD_PATTERNS, btn_text)
    THEN IF current_idx + 1 < total THEN current_idx + 1 ELSE total - 1
    ELSE IF FamilyMatches(BACKWARD_PATTERNS, btn_text)
    THEN IF current_idx > 0 THEN current_idx - 1 ELSE 0
    ELSE IF FamilyMatches(SUBMIT_PATTERNS, btn_text) THEN total - 1
    ELSE IF FamilyMatches(RESTART_PATTERNS, btn_text) THEN 0
    ELSE NoTarget

(* _match_button_target, lines 170-200 *)
MatchButtonTarget(btn_text, current_idx, total) ==
    IF FamilyMatches(FORWARD_PATTERNS, btn_text)
    THEN IF current_idx + 1 < total THEN current_idx + 1 ELSE NoTarget
    ELSE IF FamilyMatches(BACKWARD_PATTERNS, btn_text)
    THEN IF current_idx > 0 THEN current_idx - 1 ELSE NoTarget
    ELSE IF FamilyMatches(SUBMIT_PATTERNS, btn_text) THEN total - 1
    ELSE IF FamilyMatches(RESTART_PATTERNS, btn_text) THEN 0
    ELSE NoTarget

(* _determine_transitions, line 149: the target after the range test *)
TargetKept(target, idx, total) ==
    IF target # NoTarget /\ 0 <= target /\ target < total THEN target ELSE NoTarget

\* a transition: "from" and "to" are the names of the screens, which are the
\* screens' indices here; the trigger is the button's text, or inferred
ButtonTransition(idx, target, text) ==
    [from |-> idx, to |-> target, text |-> text, inferred |-> FALSE]

InferredTransition(i) ==
    [from |-> i, to |-> i + 1, text |-> <<>>, inferred |-> TRUE]

(* _determine_transitions, lines 147-156: the buttons of one screen *)
RECURSIVE ButtonTransitions(_, _, _)
ButtonTransitions(buttons, idx, total) ==
    IF buttons = <<>> THEN <<>>
    ELSE LET btn_text == Strip(Lower(Head(buttons)))
             target == TargetKept(MatchButtonTarget(btn_text, idx, total), idx, total)
             rest == ButtonTransitions(Tail(buttons), idx, total)
         IN  IF target # NoTarget
             THEN <<ButtonTransition(idx, target, Head(buttons))>> \o rest
             ELSE rest

(* _determine_transitions, lines 144-156: the screens from index idx on *)
RECURSIVE ScreenTransitions(_, _)
ScreenTransitions(screens, idx) ==
    IF idx >= Len(screens) THEN <<>>
    ELSE ButtonTransitions(screens[idx + 1], idx, Len(screens))
            \o ScreenTransitions(screens, idx + 1)

\* the chain is made although transitions were found
ChainAlways(transitions, num_screens) == num_screens > 1

(* _determine_transitions, line 159 *)
ChainNeeded(transitions, num_screens) == transitions = <<>> /\ num_screens > 1

(* _determine_transitions, lines 139-167 *)
DetermineTransitions(screens) ==
    LET transitions == ScreenTransitions(screens, 0)
        num_screens == Len(screens)
    IN  IF ChainNeeded(transitions, num_screens)
        THEN transitions \o [i \in 1..(num_screens - 1) |-> InferredTransition(i - 1)]
        ELSE transitions

\* the texts of the buttons of the designs, and the buttons of one screen
ButtonTexts ==
    { <<"S", "t", "a", "r", "t", " ", "Q", "u", "i", "z">>,    \* Start Quiz
      <<"B", "a", "c", "k">>,    \* Back
      <<"G", "o", " ", "B", "a", "c", "k">>,    \* Go Back
      <<"S", "u", "b", "m", "i", "t">>,    \* Submit
      <<"P", "l", "a", "y", " ", "A", "g", "a", "i", "n">>,    \* Play Again
      <<"H", "o", "m", "e">>,    \* Home
      <<"S", "e", "t", "t", "i", "n", "g", "s">>,    \* Settings
      <<" ", "S", "e", "e", " ", "r", "e", "s", "u", "l", "t", "s", "!", " ">> }    \*  See results! 

ButtonLists ==
    {<<>>} \cup {<<b>> : b \in ButtonTexts}
        \cup {<<b, c>> : b \in {<<"B", "a", "c", "k">>},
                          c \in {<<"S", "u", "b", "m", "i", "t">>, <<"H", "o", "m", "e">>}}

InitFlow ==
    /\ RunIdle
    /\ SharedIdle
    /\ tool_pc = "ready"
    /\ tool_in \in [screens : SeqsUpTo(ButtonLists, MaxScreens)]
    /\ tool_out = <<>>
    /\ effects = <<>>

(* analyze_flow, lines 66-71: no frames, no transitions *)
AnalyzeNoFrames ==
    /\ tool_pc = "ready"
    /\ tool_in.screens = <<>>
    /\ tool_pc' = "done"
    /\ tool_out' = <<>>
    /\ UNCHANGED <<tool_in, effects>>
    /\ UNCHANGED <<runvars, sharedvars>>

(* analyze_flow, lines 73-93: the transitions of the screens *)
AnalyzeFlow ==
    /\ tool_pc = "ready"
    /\ tool_in.screens # <<>>
    /\ tool_pc' = "done"
    /\ tool_out' = DetermineTransitions(tool_in.screens)
    /\ UNCHANGED <<tool_in, effects>>
    /\ UNCHANGED <<runvars, sharedvars>>

NextFlow ==
    \/ AnalyzeNoFrames
    \/ AnalyzeFlow

SpecFlow == InitFlow /\ [][NextFlow]_vars

-----------------------------------------------------------------------------
(* tools/screenshot_validator.py: the pairing of the design frames with the *)
(* routes of the app.  Routes and frames are their indices, from 0; the     *)
(* scores of _fuzzy_match_score are given in hundredths, one for every      *)
(* route and frame.                                                         *)

MaxRoutes == 2
MaxFrames == 2

\* scores _fuzzy_match_score returns: none, the frame name within the route,
\* the route within the frame name
ScoreValues == {0, 80, 90}

\* tuple comparison of (score, ri, fi), which scores.sort(reverse=True) uses
TupleLess(a, b) ==
    \/ a.score < b.score
    \/ a.score = b.score /\ a.ri < b.ri
    \/ a.score = b.score /\ a.ri = b.ri /\ a.fi < b.fi

(* _pair_frames_to_routes, lines 97-103: the matches with a score *)
Scores(num_routes, num_frames, score) ==
    {[score |-> score[x], ri |-> x[1], fi |-> x[2]] :
        x \in {y \in (0..(num_routes - 1)) \X (0..(num_frames - 1)) : score[y] > 0}}

\* a match is taken although its frame is in a pair
UnusedRouteOnly(m, pairs) == \A k \in DOMAIN pairs : pairs[k].ri # m.ri

(* _pair_frames_to_routes, line 108 *)
Unused(m, pairs) == \A k \in DOMAIN pairs : pairs[k].ri # m.ri /\ pairs[k].fi # m.fi

(* _pair_frames_to_routes, lines 105-111: the matches in descending order *)
RECURSIVE GreedyPairs(_, _)
GreedyPairs(scores, pairs) ==
    IF scores = {} THEN pairs
    ELSE LET m == CHOOSE x \in scores : \A y \in scores : y = x \/ TupleLess(y, x)
         IN  GreedyPairs(scores \ {m},
                         IF Unused(m, pairs)
                         THEN Append(pairs, [ri |-> m.ri, fi |-> m.fi])
                         ELSE pairs)

\* the indices below n that are not in used, ascending
RECURSIVE Unmatched(_, _)
Unmatched(n, used) ==
    IF n = 0 THEN <<>>
    ELSE Unmatched(n - 1, used) \o (IF (n - 1) \in used THEN <<>> ELSE <<n - 1>>)

(* _pair_frames_to_routes, lines 114-117: zip of the unmatched indices *)
PositionalPairs(unmatched_routes, unmatched_frames) ==
    [k \in 1..(IF Len(unmatched_routes) < Len(unmatched_frames)
               THEN Len(unmatched_routes) ELSE Len(unmatched_frames)) |->
        [ri |-> unmatched_routes[k], fi |-> unmatched_frames[k]]]

\* pairs.sort(key=lambda p: p[0]): a stable sort by the route index
RECURSIVE SortByRoute(_)
SortByRoute(pairs) ==
    IF pairs = <<>> THEN <<>>
    ELSE LET k == CHOOSE i \in DOMAIN pairs :
                    /\ \A j \in DOMAIN pairs : pairs[i].ri <= pairs[j].ri
                    /\ \A j \in 1..(i - 1) : pairs[j].ri # pairs[i].ri
         IN  <<pairs[k]>> \o SortByRoute(SubSeq(pairs, 1, k - 1) \o SubSeq(pairs, k + 1, Len(pairs)))

(* _pair_frames_to_routes, lines 84-121 *)
PairFramesToRoutes(num_routes, num_frames, score) ==
    IF num_routes = 0 \/ num_frames = 0 THEN <<>>
    ELSE LET matched == GreedyPairs(Scores(num_routes, num_frames, score), <<>>)
             used_routes == {matched[k].ri : k \in DOMAIN matched}
             used_frames == {matched[k].fi : k \in DOMAIN matched}
         IN  SortByRoute(matched \o PositionalPairs(Unmatched(num_routes, used_routes),
                                                    Unmatched(num_frames, used_frames)))

InitPairing ==
    /\ RunIdle
    /\ SharedIdle
    /\ tool_pc = "ready"
    /\ \E r \in 0..MaxRoutes, f \in 0..MaxFrames :
          \E score \in [(0..(r - 1)) \X (0..(f - 1)) -> ScoreValues] :
             tool_in = [num_routes |-> r, num_frames |-> f, score |-> score]
    /\ tool_out = [pairs |-> <<>>, unmatched_routes |-> <<>>, unpaired_figma |-> <<>>]
    /\ effects = <<>>

(* validate, lines 270-338: the pairs, the routes and the frames reported   *)
(* without a partner                                                        *)
Validate ==
    /\ tool_pc = "ready"
    /\ tool_pc' = "done"
    /\ LET matched_pairs ==
               PairFramesToRoutes(tool_in.num_routes, tool_in.num_frames, tool_in.score)
           matched_route_indices == {matched_pairs[k].ri : k \in DOMAIN matched_pairs}
           matched_frame_indices == {matched_pairs[k].fi : k \in DOMAIN matched_pairs}
       IN  tool_out' = [pairs |-> matched_pairs,
                        unmatched_routes |-> Unmatched(tool_in.num_routes, matched_route_indices),
                        unpaired_figma |-> Unmatched(tool_in.num_frames, matched_frame_indices)]
    /\ UNCHANGED <<tool_in, effects>>
    /\ UNCHANGED <<runvars, sharedvars>>

NextPairing == Validate

SpecPairing == InitPairing /\ [][NextPairing]_vars

-----------------------------------------------------------------------------
(* tools/screenshot_validator.py: validate over named frames and routes:    *)
(* the scores come from the names, the screenshot of a route is the file    *)
(* take_screenshots names after it, the image of a frame is its cache file, *)
(* for which the frame's name stands.                                       *)

MaxShots == 3
MaxDesigns == 3

\* str.strip(chars)
StripChars(s, chars) == RStripChars(LStripChars(s, chars), chars)

(* _fuzzy_match_score, lines 62-63 *)
Spaced(s) == Replace(Replace(s, <<"-">>, <<" ">>), <<"_">>, <<" ">>)

\* the landing words of line 66
HomeWords ==
    << <<"h", "o", "m", "e">>,    \* home
       <<"s", "t", "a", "r", "t">>,    \* start
       <<"w", "e", "l", "c", "o", "m", "e">>,    \* welcome
       <<"l", "a", "n", "d", "i", "n", "g">>,    \* landing
       <<"m", "a", "i", "n">> >>    \* main

\* every pair scores nothing: the pairs are those of the positions
FuzzyMatchScoreNone(frame_name, route_path) == 0

(* _fuzzy_match_score, lines 56-81: the score in hundredths (rounded down)  *)
FuzzyMatchScore(frame_name, route_path) ==
    LET frame_lower == Spaced(Lower(frame_name))
        route_lower == Spaced(StripChars(Lower(route_path), {"/"}))
        frame_words == Range(SplitWords(frame_lower))
        route_words == IF route_lower # <<>> THEN Range(SplitWords(route_lower)) ELSE {}
        overlap == frame_words \cap route_words
        longer == IF Cardinality(frame_words) > Cardinality(route_words)
                  THEN Cardinality(frame_words) ELSE Cardinality(route_words)
    IN  IF route_lower = <<>> /\ \E k \in DOMAIN HomeWords : Contains(frame_lower, HomeWords[k])
        THEN 100
        ELSE IF route_lower # <<>> /\ Contains(frame_lower, route_lower) THEN 90
        ELSE IF route_lower # <<>> /\ Contains(route_lower, frame_lower) THEN 80
        ELSE IF route_words # {} /\ frame_words # {} /\ overlap # {}
        THEN 50 + (30 * Cardinality(overlap)) \div longer
        ELSE 0

(* take_screenshots, line 166: the file name of the screenshot of a route *)
SafeName(route) ==
    LET stripped == StripChars(Replace(route, <<"/">>, <<"_">>), {"_"})
    IN  IF stripped # <<>> THEN stripped ELSE <<"h", "o", "m", "e">>

\* the image of a design frame and the screenshot of a route, as list entries
FigmaImagePath(frame) == [figma |-> TRUE, path |-> frame]
AppShotPath(route) == [figma |-> FALSE, path |-> SafeName(route)]

(* validate, lines 281-302: the images of the pairs, design before app, the  *)
(* screenshots without a frame, the frames without a route                  *)
AllImagePaths(app_routes, figma_frames, matched_pairs) ==
    LET paired == [k \in 1..(2 * Len(matched_pairs)) |->
                      IF k % 2 = 1
                      THEN FigmaImagePath(figma_frames[matched_pairs[(k + 1) \div 2].fi + 1])
                      ELSE AppShotPath(app_routes[matched_pairs[k \div 2].ri + 1])]
        extra == Unmatched(Len(app_routes), {matched_pairs[k].ri : k \in DOMAIN matched_pairs})
        missing == Unmatched(Len(figma_frames), {matched_pairs[k].fi : k \in DOMAIN matched_pairs})
    IN  paired \o [k \in DOMAIN extra |-> AppShotPath(app_routes[extra[k] + 1])]
               \o [k \in DOMAIN missing |-> FigmaImagePath(figma_frames[missing[k] + 1])]

\* the routes of the app and the names of the design frames
RouteNames ==
    { <<"/">>,    \* /
      <<"/", "q", "u", "i", "z">>,    \* /quiz
      <<"/", "r", "e", "s", "u", "l", "t", "s">>,    \* /results
      <<"/", "h", "o", "m", "e">> }    \* /home
FrameNames ==
    { <<"H", "o", "m", "e", " ", "P", "a", "g", "e">>,    \* Home Page
      <<"Q", "u", "i", "z", " ", "S", "c", "r", "e", "e", "n">>,    \* Quiz Screen
      <<"R", "e", "s", "u", "l", "t", "s">> }    \* Results

\* the sequences without repetition: the keys of a dict, the frames of a file
DistinctSeqs(S, n) ==
    {q \in SeqsUpTo(S, n) : \A i, j \in DOMAIN q : i # j => q[i] # q[j]}

InitNames ==
    /\ RunIdle
    /\ SharedIdle
    /\ tool_pc = "ready"
    /\ tool_in \in [app_routes : DistinctSeqs(RouteNames, MaxShots),
                    figma_frames : DistinctSeqs(FrameNames, MaxDesigns)]
    /\ tool_out = [pairs |-> <<>>, image_paths |-> <<>>]
    /\ effects = <<>>

(* validate, lines 270-302 and 358-365 *)
ValidateNames ==
    /\ tool_pc = "ready"
    /\ tool_pc' = "done"
    /\ LET app_routes == tool_in.app_routes
           figma_frames == tool_in.figma_frames
           score == [x \in (0..(Len(app_routes) - 1)) \X (0..(Len(figma_frames) - 1)) |->
                        FuzzyMatchScore(figma_frames[x[2] + 1], app_routes[x[1] + 1])]
           matched_pairs == PairFramesToRoutes(Len(app_routes), Len(figma_frames), score)
       IN  tool_out' = [pairs |-> matched_pairs,
                        image_paths |-> AllImagePaths(app_routes, figma_frames, matched_pairs)]
    /\ UNCHANGED <<tool_in, effects>>
    /\ UNCHANGED <<runvars, sharedvars>>

NextNames == ValidateNames

SpecNames == InitNames /\ [][NextNames]_vars

-----------------------------------------------------------------------------
(* agent/context.py: build_prompt_context over the files of the project     *)
(* directory.  The result is the sequence of its parts, each named by the   *)
(* tag it opens with.                                                       *)

MaxMessages == 7

\* the fields of .project_memory.json that _load_project_memory renders, in
\* the order of its lines, and a field it does not know
MemoryFields == <<"description", "quiz_type", "components", "features", "changes">>
MemoryKeys == Range(MemoryFields) \cup {"notes"}

\* a json file of the project: missing, not json, or read
JsonStates == {"missing", "corrupt", "ok"}

\* the project directories: without the directory there is no file in it,
\* and src/App.jsx or a component named in the prompt is a file under src/
ProjectDirs ==
    {d \in [dir : BOOLEAN, package_json : BOOLEAN, src : BOOLEAN, app_jsx : BOOLEAN,
            mentioned : BOOLEAN,
            memory : [state : JsonStates, keys : SUBSET MemoryKeys],
            chat : [state : JsonStates, messages : 0..MaxMessages]] :
        /\ d.dir \/ (~d.package_json /\ ~d.src
                      /\ d.memory.state = "missing" /\ d.chat.state = "missing")
        /\ d.src \/ (~d.app_jsx /\ ~d.mentioned)
        /\ d.memory.state = "ok" \/ d.memory.keys = {}
        /\ d.chat.state = "ok" \/ d.chat.messages = 0}

\* the mode follows the directory alone
IsExistingDirOnly(d) == d.dir

(* build_prompt_context, lines 28-31 *)
IsExisting(d) == d.dir /\ d.package_json

(* _load_project_memory, lines 87-110: the lines of the fields that are set *)
LoadProjectMemory(d) ==
    IF d.memory.state # "ok" THEN <<>>
    ELSE SelectSeq(MemoryFields, LAMBDA f : f \in d.memory.keys)

(* _load_recent_chat, lines 113-131: the number of lines, one for each of   *)
(* the last six messages                                                    *)
LoadRecentChat(d) ==
    IF d.chat.state # "ok" THEN 0
    ELSE IF d.chat.messages > 6 THEN 6 ELSE d.chat.messages

(* _read_key_files, lines 134-189: the files read *)
ReadKeyFiles(d) ==
    (IF d.app_jsx THEN <<"src/App.jsx">> ELSE <<>>)
        \o (IF d.mentioned THEN <<"component">> ELSE <<>>)

(* build_prompt_context, lines 13-50 *)
BuildPromptContext(d) ==
    IF IsExisting(d)
    THEN <<"[Mode: modify]", "[Project info]">>
            \o (IF LoadProjectMemory(d) # <<>> THEN <<"[Project memory]">> ELSE <<>>)
            \o (IF LoadRecentChat(d) # 0 THEN <<"[Recent conversation]">> ELSE <<>>)
            \o (IF ReadKeyFiles(d) # <<>> THEN <<"[Key file contents]">> ELSE <<>>)
            \o <<"user_prompt">>
    ELSE <<"[Mode: create]", "user_prompt">>

InitContext ==
    /\ RunIdle
    /\ SharedIdle
    /\ tool_pc = "ready"
    /\ tool_in \in ProjectDirs
    /\ tool_out = <<>>
    /\ effects = <<>>

BuildContext ==
    /\ tool_pc = "ready"
    /\ tool_pc' = "done"
    /\ tool_out' = BuildPromptContext(tool_in)
    /\ UNCHANGED <<tool_in, effects>>
    /\ UNCHANGED <<runvars, sharedvars>>

NextContext == BuildContext

SpecContext == InitContext /\ [][NextContext]_vars

-----------------------------------------------------------------------------
(* figma/client.py: FigmaClient.get_file and export_images over the cache   *)
(* directory, and _request_with_retry.  store holds the cache files, clock  *)
(* is time.time() in seconds, tool_in the version of the documents at the   *)
(* remote service and the number of calls made, tool_out the call under way *)
(* or the one that ended last, effects what each client got from its last   *)
(* call.                                                                    *)

CACHE_TTL == 300
max_retries == 3

MaxClock == 600
MaxVersions == 2
MaxFetches == 2

\* the documents (file key and node id of a client); both have a frame with
\* the node id 1:2, whose image is cached in 1-2.png
Docs == {"docA", "docB"}

\* the status codes a request ends with
StatusCodes == {200, 304, 404, 429, 500}

\* the pauses between calls
Pauses == {120, 300}

NoFile == [exists |-> FALSE, mtime |-> 0, doc |-> "none", version |-> 0]
CacheFile(now, doc, version) ==
    [exists |-> TRUE, mtime |-> now, doc |-> doc, version |-> version]

\* what a file holds
Content(file) == [doc |-> file.doc, version |-> file.version]

\* the cache is not looked at
FreshNever(file) == FALSE

(* get_file, lines 89-91, export_images, lines 145-147 *)
Fresh(file) == file.exists /\ clock - file.mtime < CACHE_TTL

\* no call under way
NoCall ==
    [op |-> "none", doc |-> "none", attempt |-> 0, requests |-> 0, statuses |-> <<>>,
     outcome |-> "none", result |-> NoFile]

NewCall(op, doc) == [NoCall EXCEPT !.op = op, !.doc = doc, !.outcome = "pending"]

(* _request_with_retry, line 70: for attempt in range(max_retries) *)
AttemptsLeft(attempt) == attempt < max_retries

\* a status the loop answers by waiting and trying again
RetriedAlways(status) == status >= 400

(* _request_with_retry, line 72 *)
Retried(status) == status = 429

(* requests: Response.raise_for_status raises for 4xx and 5xx *)
RaisesForStatus(status) == 400 <= status /\ status < 600

InitCache ==
    /\ RunIdle
    /\ threads = <<>>
    /\ dev_server_proc = NoProcess
    /\ procs = {}
    /\ locks = <<>>
    /\ clock = 0
    /\ store = [files |-> [d \in Docs |-> NoFile], image |-> NoFile]
    /\ tool_pc = "idle"
    /\ tool_in = [version |-> 1, calls |-> 0]
    /\ tool_out = NoCall
    /\ effects = [d \in Docs |-> [file |-> Content(NoFile), image |-> Content(NoFile)]]

CacheStep == UNCHANGED <<runvars, threads, dev_server_proc, procs, locks>>

\* one more call of a client
Called ==
    /\ tool_in.calls < MaxFetches
    /\ tool_in' = [tool_in EXCEPT !.calls = @ + 1]

\* the result of a call, kept as what the client got last
Returned(call, op, result) ==
    /\ tool_out' = [call EXCEPT !.outcome = "returned", !.result = result]
    /\ effects' = [effects EXCEPT ![call.doc][op] = Content(result)]

(* get_file, lines 87-92: the cache file is fresh *)
GetFileCached(d) ==
    /\ tool_pc = "idle"
    /\ Fresh(store.files[d])
    /\ Called
    /\ Returned(NewCall("get_file", d), "file", store.files[d])
    /\ UNCHANGED <<tool_pc, store, clock>>
    /\ CacheStep

(* get_file, lines 94-99: no fresh cache file, the request is prepared *)
GetFileStart(d) ==
    /\ tool_pc = "idle"
    /\ ~Fresh(store.files[d])
    /\ Called
    /\ tool_pc' = "request"
    /\ tool_out' = NewCall("get_file", d)
    /\ UNCHANGED <<effects, store, clock>>
    /\ CacheStep

(* export_images, lines 141-149 and 172: the image is cached and fresh *)
ExportCached(d) ==
    /\ tool_pc = "idle"
    /\ Fresh(store.image)
    /\ Called
    /\ Returned(NewCall("export_images", d), "image", store.image)
    /\ UNCHANGED <<tool_pc, store, clock>>
    /\ CacheStep

(* export_images, lines 141-157: the image is to be exported *)
ExportStart(d) ==
    /\ tool_pc = "idle"
    /\ ~Fresh(store.image)
    /\ Called
    /\ tool_pc' = "request"
    /\ tool_out' = NewCall("export_images", d)
    /\ UNCHANGED <<effects, store, clock>>
    /\ CacheStep

(* _request_with_retry, lines 70-78: one pass of the loop *)
Request(status) ==
    /\ tool_pc = "request"
    /\ AttemptsLeft(tool_out.attempt)
    /\ LET call == [tool_out EXCEPT !.requests = @ + 1, !.statuses = Append(@, status)]
       IN  IF Retried(status)
           THEN /\ clock' = clock + 30 * (call.attempt + 1)
                /\ tool_out' = [call EXCEPT !.attempt = @ + 1]
                /\ UNCHANGED tool_pc
           ELSE IF RaisesForStatus(status)
           THEN /\ tool_out' = [call EXCEPT !.outcome = "HTTPError"]
                /\ tool_pc' = "idle"
                /\ UNCHANGED clock
           ELSE /\ tool_out' = call
                /\ tool_pc' = "response"
                /\ UNCHANGED clock
    /\ UNCHANGED <<tool_in, effects, store>>
    /\ CacheStep

(* _request_with_retry, line 79: the loop is over *)
RetriesExhausted ==
    /\ tool_pc = "request"
    /\ ~AttemptsLeft(tool_out.attempt)
    /\ tool_pc' = "idle"
    /\ tool_out' = [tool_out EXCEPT !.outcome = "rate limit exceeded"]
    /\ UNCHANGED <<tool_in, effects, store, clock>>
    /\ CacheStep

\* the status of the response _request_with_retry returned
ResponseStatus == tool_out.statuses[Len(tool_out.statuses)]

(* get_file, lines 101-107: the document of the response is cached *)
GetFileComplete ==
    /\ tool_pc = "response"
    /\ tool_out.op = "get_file"
    /\ ResponseStatus = 200
    /\ tool_pc' = "idle"
    /\ LET file == CacheFile(clock, tool_out.doc, tool_in.version)
       IN  /\ store' = [store EXCEPT !.files[tool_out.doc] = file]
           /\ Returned(tool_out, "file", file)
    /\ UNCHANGED <<tool_in, clock>>
    /\ CacheStep

(* export_images, lines 158-172: the image is downloaded and cached, or the *)
(* export gave no url or the download failed and nothing is returned for it *)
ExportComplete(downloaded) ==
    /\ tool_pc = "response"
    /\ tool_out.op = "export_images"
    /\ ResponseStatus = 200
    /\ tool_pc' = "idle"
    /\ IF downloaded
       THEN LET file == CacheFile(clock, tool_out.doc, tool_in.version)
            IN  /\ store' = [store EXCEPT !.image = file]
                /\ Returned(tool_out, "image", file)
       ELSE /\ Returned(tool_out, "image", NoFile)
            /\ UNCHANGED store
    /\ UNCHANGED <<tool_in, clock>>
    /\ CacheStep

(* get_file, line 102, export_images, line 157: resp.json() of a response   *)
(* that is no document raises                                               *)
JsonRaises ==
    /\ tool_pc = "response"
    /\ ResponseStatus # 200
    /\ tool_pc' = "idle"
    /\ tool_out' = [tool_out EXCEPT !.outcome = "JSONDecodeError"]
    /\ UNCHANGED <<tool_in, effects, store, clock>>
    /\ CacheStep

\* time passes between two calls
Pause(dt) ==
    /\ tool_pc = "idle"
    /\ clock + dt <= MaxClock
    /\ clock' = clock + dt
    /\ UNCHANGED <<toolvars, store>>
    /\ CacheStep

\* the documents are edited at the remote service
RemoteEdit ==
    /\ tool_pc = "idle"
    /\ tool_in.version < MaxVersions
    /\ tool_in' = [tool_in EXCEPT !.version = @ + 1]
    /\ UNCHANGED <<tool_pc, tool_out, effects, store, clock>>
    /\ CacheStep

NextCache ==
    \/ \E d \in Docs : GetFileCached(d)
    \/ \E d \in Docs : GetFileStart(d)
    \/ \E d \in Docs : ExportCached(d)
    \/ \E d \in Docs : ExportStart(d)
    \/ \E status \in StatusCodes : Request(status)
    \/ RetriesExhausted
    \/ GetFileComplete
    \/ \E downloaded \in BOOLEAN : ExportComplete(downloaded)
    \/ JsonRaises
    \/ \E dt \in Pauses : Pause(dt)
    \/ RemoteEdit

SpecCache == InitCache /\ [][NextCache]_vars

-----------------------------------------------------------------------------
(* tools/snapshots.py: the snapshots of one project.  store holds whether   *)
(* the project directory exists and the snapshot folders with the timestamp *)
(* of their manifest; clock is time.time(), which goes on between two calls;*)
(* tool_out is what the last call returned.                                 *)

MAX_SNAPSHOTS == 5

MaxSnapshotIds == 6
MaxTakes == 7

SnapshotIds == 1..MaxSnapshotIds

\* the snapshots oldest first
RECURSIVE ListOldestFirst(_)
ListOldestFirst(snaps) ==
    IF snaps = {} THEN <<>>
    ELSE LET oldest == CHOOSE x \in snaps : \A y \in snaps : x.timestamp <= y.timestamp
         IN  <<oldest>> \o ListOldestFirst(snaps \ {oldest})

(* list_snapshots, lines 74-94: the manifests, newest first *)
RECURSIVE ListSnapshots(_)
ListSnapshots(snaps) ==
    IF snaps = {} THEN <<>>
    ELSE LET newest == CHOOSE x \in snaps : \A y \in snaps : x.timestamp >= y.timestamp
         IN  <<newest>> \o ListSnapshots(snaps \ {newest})

(* _prune_snapshots, lines 147-158: the folders left *)
PruneSnapshots(snaps) ==
    LET all_snapshots == ListSnapshots(snaps)
    IN  IF Len(all_snapshots) <= MAX_SNAPSHOTS THEN snaps
        ELSE snaps \ {all_snapshots[k] : k \in (MAX_SNAPSHOTS + 1)..Len(all_snapshots)}

InitSnapshots ==
    /\ RunIdle
    /\ threads = <<>>
    /\ dev_server_proc = NoProcess
    /\ procs = {}
    /\ locks = <<>>
    /\ clock = 0
    /\ store \in [project_dir : BOOLEAN, snapshots : {{}}]
    /\ tool_pc = "idle"
    /\ tool_in = 0
    /\ tool_out = 0
    /\ effects = {}

\* a call: time has gone on when it writes or compares a timestamp
SnapshotStep ==
    /\ clock < MaxTakes
    /\ clock' = clock + 1
    /\ UNCHANGED <<runvars, threads, dev_server_proc, procs, locks, tool_pc>>

(* take_snapshot, lines 40-42: no project directory, None *)
TakeSnapshotNoProject(session_id) ==
    /\ ~store.project_dir
    /\ SnapshotStep
    /\ tool_in' = session_id
    /\ tool_out' = 0
    /\ UNCHANGED <<store, effects>>

(* take_snapshot, lines 44-71: the folder of the session is filled, its     *)
(* manifest written, the old snapshots pruned                               *)
TakeSnapshot(session_id) ==
    /\ store.project_dir
    /\ SnapshotStep
    /\ LET manifest == [snapshot_id |-> session_id, timestamp |-> clock']
           written == {x \in store.snapshots : x.snapshot_id # session_id} \cup {manifest}
       IN  /\ store' = [store EXCEPT !.snapshots = PruneSnapshots(written)]
           /\ effects' = written
    /\ tool_in' = session_id
    /\ tool_out' = session_id

(* revert_to_snapshot, lines 97-144: the snapshot and the newer ones go *)
RevertToSnapshot(snapshot_id) ==
    /\ \E x \in store.snapshots : x.snapshot_id = snapshot_id
    /\ SnapshotStep
    /\ LET target == CHOOSE x \in store.snapshots : x.snapshot_id = snapshot_id
       IN  store' = [store EXCEPT !.snapshots =
                        {x \in @ : x.timestamp < target.timestamp}]
    /\ tool_in' = snapshot_id
    /\ tool_out' = 0
    /\ effects' = {}

NextSnapshots ==
    \/ \E id \in SnapshotIds : TakeSnapshotNoProject(id)
    \/ \E id \in SnapshotIds : TakeSnapshot(id)
    \/ \E id \in SnapshotIds : RevertToSnapshot(id)

SpecSnapshots == InitSnapshots /\ [][NextSnapshots]_vars

-----------------------------------------------------------------------------
(* figma/parser.py: the walks over the node tree of a design.  A document is*)
(* one frame (depth 0) over a chain of nodes, nodes[d] being the node d      *)
(* levels below the frame; a text node is a leaf and its characters are its *)
(* depth.  A ROUNDED node has a corner radius and fills.                    *)

DEPTH_CAP == 8

MaxDepth == 9

ContainerKinds == {"GROUP", "INSTANCE", "ROUNDED"}

Documents ==
    UNION {{nodes \in [1..n -> ContainerKinds \cup {"TEXT"}] :
               \A d \in 1..(n - 1) : nodes[d] # "TEXT"} : n \in 1..MaxDepth}

KindAt(nodes, depth) == IF depth = 0 THEN "FRAME" ELSE nodes[depth]

(* _has_text_child, lines 285-292 *)
RECURSIVE HasTextChild(_, _)
HasTextChild(nodes, depth) ==
    /\ depth < Len(nodes)
    /\ \/ nodes[depth + 1] = "TEXT"
       \/ HasTextChild(nodes, depth + 1)

(* _get_all_text, lines 295-304: the depths of the text nodes gathered *)
RECURSIVE GetAllText(_, _)
GetAllText(nodes, depth) ==
    (IF KindAt(nodes, depth) = "TEXT" THEN <<depth>> ELSE <<>>)
    \o (IF depth < Len(nodes) THEN GetAllText(nodes, depth + 1) ELSE <<>>)

(* lines 167-172 and 463-468 *)
IsInteractive(nodes, depth) ==
    \/ KindAt(nodes, depth) = "INSTANCE"
    \/ KindAt(nodes, depth) = "ROUNDED" /\ HasTextChild(nodes, depth)

(* lines 174-183 and 470-478: the element of a control with a text *)
InteractiveElements(nodes, depth) ==
    IF IsInteractive(nodes, depth) /\ depth > 0 /\ GetAllText(nodes, depth) # <<>>
    THEN <<[layer |-> depth, text |-> GetAllText(nodes, depth)]>>
    ELSE <<>>

NoSpecs == [text_content |-> <<>>, interactive_elements |-> <<>>, frames |-> {}]

(* _extract_frame, lines 49-282 *)
RECURSIVE ExtractFrame(_, _)
ExtractFrame(nodes, depth) ==
    LET below == IF depth < DEPTH_CAP /\ depth < Len(nodes)
                 THEN ExtractFrame(nodes, depth + 1) ELSE NoSpecs
    IN  [text_content |->
             (IF KindAt(nodes, depth) = "TEXT" THEN <<depth>> ELSE <<>>)
             \o below.text_content,
         interactive_elements |->
             InteractiveElements(nodes, depth) \o below.interactive_elements,
         frames |-> {depth} \cup below.frames]

(* _collect_interactive, lines 458-481 *)
RECURSIVE CollectInteractive(_, _)
CollectInteractive(nodes, depth) ==
    IF depth > DEPTH_CAP THEN <<>>
    ELSE InteractiveElements(nodes, depth)
         \o (IF depth < Len(nodes) THEN CollectInteractive(nodes, depth + 1) ELSE <<>>)

InitDesign ==
    /\ RunIdle
    /\ SharedIdle
    /\ tool_pc = "idle"
    /\ tool_in \in Documents
    /\ tool_out = NoSpecs
    /\ effects = {}

(* extract_design_specs, lines 12-46 *)
ExtractDesignSpecs ==
    /\ tool_pc = "idle"
    /\ tool_pc' = "specs"
    /\ tool_out' = ExtractFrame(tool_in, 0)
    /\ UNCHANGED <<tool_in, effects, runvars, sharedvars>>

(* extract_frames_summary, lines 416-455 *)
ExtractFramesSummary ==
    /\ tool_pc = "idle"
    /\ tool_pc' = "summary"
    /\ tool_out' = [NoSpecs EXCEPT !.interactive_elements = CollectInteractive(tool_in, 0)]
    /\ UNCHANGED <<tool_in, effects, runvars, sharedvars>>

NextDesign == ExtractDesignSpecs \/ ExtractFramesSummary

SpecDesign == InitDesign /\ [][NextDesign]_vars

-----------------------------------------------------------------------------
(* web/server.py: two builds started through /api/build.  Each runs         *)
(* run_agent in a thread of its own, on the one AgentCore that _get_agent    *)
(* creates: iteration_count and stop_requested are the fields of that       *)
(* agent, store is the executor's _current_project, effects are the file    *)
(* writes with the project they were resolved under.                        *)

Builds == {1, 2}

Projects == {"p", "q"}

NoProject == ""

NoBuild == [pc |-> "none", project |-> NoProject]

Running(t) == threads[t].pc \in {"count", "clear", "loop", "turn"}

InitBuilds ==
    /\ RunIdle
    /\ tool_pc = "idle"
    /\ tool_in = <<>>
    /\ tool_out = <<>>
    /\ effects = {}
    /\ threads = [t \in Builds |-> NoBuild]
    /\ dev_server_proc = NoProcess
    /\ procs = {}
    /\ store = NoProject
    /\ locks = <<>>
    /\ clock = 0

\* the variables of the model that no build touches
BuildFrame ==
    UNCHANGED <<pc, current_input, response, fc_index, function_response_parts,
                figma_images, running, outcome, return_value, session_saves,
                sent_log, tool_pc, tool_in, tool_out, dev_server_proc, procs,
                locks, clock>>

BuildGoes(t, pc_next) ==
    /\ threads' = [threads EXCEPT ![t].pc = pc_next]
    /\ BuildFrame

(* build, lines 134-243: the thread of the build is started *)
Build(t, project_name) ==
    /\ threads[t].pc = "none"
    /\ threads' = [threads EXCEPT ![t] = [pc |-> "start", project |-> project_name]]
    /\ BuildFrame
    /\ UNCHANGED <<iteration_count, stop_requested, store, effects>>

(* run_agent, lines 214-217, and set_dependencies, executor.py lines 27-36: *)
(* the one agent is fetched and the active project set                      *)
SetDependencies(t) ==
    /\ threads[t].pc = "start"
    /\ store' = threads[t].project
    /\ BuildGoes(t, "count")
    /\ UNCHANGED <<iteration_count, stop_requested, effects>>

(* AgentCore.run, core.py line 123 *)
RunResetsCount(t) ==
    /\ threads[t].pc = "count"
    /\ iteration_count' = 0
    /\ BuildGoes(t, "clear")
    /\ UNCHANGED <<stop_requested, store, effects>>

(* AgentCore.run, core.py line 145 *)
RunClearsStop(t) ==
    /\ threads[t].pc = "clear"
    /\ stop_requested' = FALSE
    /\ BuildGoes(t, "loop")
    /\ UNCHANGED <<iteration_count, store, effects>>

(* core.py lines 147-151: the stop flag is polled at the top of the loop *)
BuildStopped(t) ==
    /\ threads[t].pc = "loop"
    /\ iteration_count < MAX_ITERATIONS
    /\ stop_requested
    /\ BuildGoes(t, "stopped")
    /\ UNCHANGED <<iteration_count, stop_requested, store, effects>>

(* core.py line 153 *)
BuildIterates(t) ==
    /\ threads[t].pc = "loop"
    /\ iteration_count < MAX_ITERATIONS
    /\ ~stop_requested
    /\ iteration_count' = iteration_count + 1
    /\ BuildGoes(t, "turn")
    /\ UNCHANGED <<stop_requested, store, effects>>

(* core.py lines 147 and 358: the loop ends at the limit *)
BuildExhausted(t) ==
    /\ threads[t].pc = "loop"
    /\ iteration_count >= MAX_ITERATIONS
    /\ BuildGoes(t, "result")
    /\ UNCHANGED <<iteration_count, stop_requested, store, effects>>

(* core.py lines 203-207 and 252-255: the flag polled around the tools *)
BuildStoppedAtTool(t) ==
    /\ threads[t].pc = "turn"
    /\ stop_requested
    /\ BuildGoes(t, "stopped")
    /\ UNCHANGED <<iteration_count, stop_requested, store, effects>>

(* a create_file call of the turn: _enforce_output_dir, executor.py lines   *)
(* 85-114, puts the path under the active project                           *)
BuildWritesFile(t) ==
    /\ threads[t].pc = "turn"
    /\ effects' = effects \cup {[build |-> t, project |-> threads[t].project, under |-> store]}
    /\ BuildGoes(t, "loop")
    /\ UNCHANGED <<iteration_count, stop_requested, store>>

(* core.py lines 171-200: the model answers with text, run returns *)
BuildReturns(t) ==
    /\ threads[t].pc = "turn"
    /\ BuildGoes(t, "result")
    /\ UNCHANGED <<iteration_count, stop_requested, store, effects>>

(* run raises something else than AgentStopped *)
BuildRaises(t) ==
    /\ threads[t].pc = "turn"
    /\ BuildGoes(t, "error")
    /\ UNCHANGED <<iteration_count, stop_requested, store, effects>>

(* run_agent, line 235, and AgentCore.reset, core.py lines 360-365: the     *)
(* reset passes no project, the active project stays                        *)
AgentReset(t) ==
    /\ threads[t].pc \in {"result", "stopped", "error"}
    /\ iteration_count' = 0
    /\ stop_requested' = FALSE
    /\ BuildGoes(t, "finished")
    /\ UNCHANGED <<store, effects>>

(* stop_build, lines 291-296: the request names no build *)
StopBuild ==
    /\ \E t \in Builds : Running(t)
    /\ ~stop_requested
    /\ stop_requested' = TRUE
    /\ BuildFrame
    /\ UNCHANGED <<threads, iteration_count, store, effects>>

NextBuilds ==
    \/ \E t \in Builds, project_name \in Projects : Build(t, project_name)
    \/ \E t \in Builds : SetDependencies(t)
    \/ \E t \in Builds : RunResetsCount(t)
    \/ \E t \in Builds : RunClearsStop(t)
    \/ \E t \in Builds : BuildStopped(t)
    \/ \E t \in Builds : BuildIterates(t)
    \/ \E t \in Builds : BuildExhausted(t)
    \/ \E t \in Builds : BuildStoppedAtTool(t)
    \/ \E t \in Builds : BuildWritesFile(t)
    \/ \E t \in Builds : BuildReturns(t)
    \/ \E t \in Builds : BuildRaises(t)
    \/ \E t \in Builds : AgentReset(t)
    \/ StopBuild

SpecBuilds == InitBuilds /\ [][NextBuilds]_vars

-----------------------------------------------------------------------------
(* web/server.py: the log queues of two build sessions and their SSE        *)
(* streams.  store holds sys.stdout (RealStdout, or the session whose       *)
(* LogCapture it is), the keys of log_queues and the events waiting in each *)
(* queue; effects is the history of every queue; tool_out is the state of   *)
(* each session's stream.                                                   *)

MaxPrints == 1

RealStdout == 0

OutcomeEvents == {"result", "stopped", "error"}

NoRun == [pc |-> "none", old_stdout |-> RealStdout, target |-> RealStdout, prints |-> 0]

InitStream ==
    /\ RunIdle
    /\ threads = [t \in Builds |-> NoRun]
    /\ dev_server_proc = NoProcess
    /\ procs = {}
    /\ locks = <<>>
    /\ clock = 0
    /\ store = [stdout |-> RealStdout, log_queues |-> {}, queue |-> [t \in Builds |-> <<>>]]
    /\ effects = [t \in Builds |-> <<>>]
    /\ tool_pc = "idle"
    /\ tool_in = <<>>
    /\ tool_out = [t \in Builds |-> "none"]

StreamFrame == UNCHANGED <<runvars, dev_server_proc, procs, locks, clock, tool_pc, tool_in>>

(* queue.Queue.put on the queue of session q; a write on the real stdout    *)
(* reaches no queue                                                         *)
PutEvent(st, q, event) ==
    IF q = RealStdout THEN st
    ELSE [st EXCEPT !.queue[q] = Append(@, event)]

Logged(q, event) ==
    effects' = IF q = RealStdout THEN effects
               ELSE [effects EXCEPT ![q] = Append(@, event)]

(* build, lines 189-196 and 240-241: the queues are registered, the thread  *)
(* started                                                                  *)
StartSession(t) ==
    /\ threads[t].pc = "none"
    /\ threads' = [threads EXCEPT ![t].pc = "start"]
    /\ store' = [store EXCEPT !.log_queues = @ \cup {t}]
    /\ UNCHANGED <<effects, tool_out>>
    /\ StreamFrame

(* run_agent, lines 219-221: sys.stdout is kept and replaced by the        *)
(* LogCapture of the session                                                *)
CaptureStdout(t) ==
    /\ threads[t].pc = "start"
    /\ threads' = [threads EXCEPT ![t].pc = "run", ![t].old_stdout = store.stdout]
    /\ store' = [store EXCEPT !.stdout = t]
    /\ UNCHANGED <<effects, tool_out>>
    /\ StreamFrame

(* a print of agent.run: sys.stdout is looked up *)
PrintLooksUp(t) ==
    /\ threads[t].pc = "run"
    /\ threads[t].prints < MaxPrints
    /\ threads' = [threads EXCEPT ![t].pc = "print", ![t].target = store.stdout,
                                  ![t].prints = @ + 1]
    /\ UNCHANGED <<store, effects, tool_out>>
    /\ StreamFrame

(* LogCapture.write, lines 79-81 *)
PrintWrites(t) ==
    /\ threads[t].pc = "print"
    /\ threads' = [threads EXCEPT ![t].pc = "run", ![t].target = RealStdout]
    /\ store' = PutEvent(store, threads[t].target, "log")
    /\ Logged(threads[t].target, "log")
    /\ UNCHANGED tool_out
    /\ StreamFrame

(* run_agent, lines 223-232: run returns, raises AgentStopped or raises     *)
(* another Exception                                                        *)
RunEnds(t, event) ==
    /\ threads[t].pc = "run"
    /\ threads' = [threads EXCEPT ![t].pc = "finally"]
    /\ store' = PutEvent(store, t, event)
    /\ Logged(t, event)
    /\ UNCHANGED tool_out
    /\ StreamFrame

(* run_agent, line 234 *)
RestoreStdout(t) ==
    /\ threads[t].pc = "finally"
    /\ threads' = [threads EXCEPT ![t].pc = "done"]
    /\ store' = [store EXCEPT !.stdout = threads[t].old_stdout]
    /\ UNCHANGED <<effects, tool_out>>
    /\ StreamFrame

(* run_agent, lines 235-239 *)
PutDone(t) ==
    /\ threads[t].pc = "done"
    /\ threads' = [threads EXCEPT ![t].pc = "finished"]
    /\ store' = PutEvent(store, t, "done")
    /\ Logged(t, "done")
    /\ UNCHANGED tool_out
    /\ StreamFrame

(* stream, lines 249-252: the session has a queue (a session without one   *)
(* is answered 404)                                                         *)
StreamOpens(t) ==
    /\ tool_out[t] = "none"
    /\ t \in store.log_queues
    /\ tool_out' = [tool_out EXCEPT ![t] = "open"]
    /\ UNCHANGED <<threads, store, effects>>
    /\ StreamFrame

(* generate, lines 257-262: an event is taken and sent (with nothing in the *)
(* queue for 30 s a heartbeat is sent, lines 263-265)                       *)
StreamSends(t) ==
    /\ tool_out[t] = "open"
    /\ store.queue[t] # <<>>
    /\ Head(store.queue[t]) # "done"
    /\ store' = [store EXCEPT !.queue[t] = Tail(@)]
    /\ UNCHANGED <<threads, effects, tool_out>>
    /\ StreamFrame

(* generate, lines 259-261 and 266-270: 'done' is sent, the loop left and   *)
(* the queue of the session removed                                         *)
StreamEnds(t) ==
    /\ tool_out[t] = "open"
    /\ store.queue[t] # <<>>
    /\ Head(store.queue[t]) = "done"
    /\ store' = [store EXCEPT !.queue[t] = Tail(@), !.log_queues = @ \ {t}]
    /\ tool_out' = [tool_out EXCEPT ![t] = "ended"]
    /\ UNCHANGED <<threads, effects>>
    /\ StreamFrame

(* generate, lines 266-270: the client went away *)
StreamDisconnects(t) ==
    /\ tool_out[t] = "open"
    /\ store' = [store EXCEPT !.log_queues = @ \ {t}]
    /\ tool_out' = [tool_out EXCEPT ![t] = "disconnected"]
    /\ UNCHANGED <<threads, effects>>
    /\ StreamFrame

(* _cleanup_stale_queues, lines 88-100: a queue registered for ten minutes  *)
(* is dropped and the removal printed                                       *)
CleanupStaleQueue(t) ==
    /\ t \in store.log_queues
    /\ store' = PutEvent([store EXCEPT !.log_queues = @ \ {t}], store.stdout, "log")
    /\ Logged(store.stdout, "log")
    /\ UNCHANGED <<threads, tool_out>>
    /\ StreamFrame

NextStream ==
    \/ \E t \in Builds : StartSession(t)
    \/ \E t \in Builds : CaptureStdout(t)
    \/ \E t \in Builds : PrintLooksUp(t)
    \/ \E t \in Builds : PrintWrites(t)
    \/ \E t \in Builds, event \in OutcomeEvents : RunEnds(t, event)
    \/ \E t \in Builds : RestoreStdout(t)
    \/ \E t \in Builds : PutDone(t)
    \/ \E t \in Builds : StreamOpens(t)
    \/ \E t \in Builds : StreamSends(t)
    \/ \E t \in Builds : StreamEnds(t)
    \/ \E t \in Builds : StreamDisconnects(t)
    \/ \E t \in Builds : CleanupStaleQueue(t)

SpecStream == InitStream /\ [][NextStream]_vars

-----------------------------------------------------------------------------
(* tools/executor.py: _handle_fetch_figma_design, and the place of          *)
(* AgentCore.run that takes the image paths out of its result.  A text is   *)
(* a number of leading characters (the specification and the list of the    *)
(* screenshots, which hold no marker) and the characters after them.        *)

SpecsLimit == 15000

MaxExported == 2
MaxMargin == 40

FigmaMarker == <<"_", "_", "F", "I", "G", "M", "A", "_", "I", "M", "A", "G", "E", "S", "_", "_", ":">>
TruncatedNote == <<"\n">> \o <<".", ".", ".", " ", "(", "t", "r", "u", "n", "c", "a", "t", "e", "d", ")">>
NotConfigured == <<"E", "R", "R", "O", "R", ":", " ", "F", "I", "G", "M", "A", "_", "A", "C", "C", "E", "S", "S", "_", "T", "O", "K", "E", "N", " ", "a", "n", "d", " ", "F", "I", "G", "M", "A", "_", "U", "R", "L", " ", "m", "u", "s", "t", " ", "b", "e", " ", "s", "e", "t", " ", "i", "n", " ", ".", "e", "n", "v">>

\* the cache file of the k-th exported frame
FramePath(k) == [i \in 1..k |-> "f"] \o <<".", "p", "n", "g">>

Text(n, chars) == [head |-> n, tail |-> chars]

TextLen(text) == text.head + Len(text.tail)

(* lines 533-535: specs[:15000] and the note *)
Truncate(text) ==
    IF TextLen(text) > SpecsLimit
    THEN IF text.head >= SpecsLimit
         THEN Text(SpecsLimit, TruncatedNote)
         ELSE Text(text.head, SubSeq(text.tail, 1, SpecsLimit - text.head) \o TruncatedNote)
    ELSE text

(* lines 459-537, with image_paths the paths that export_images returned *)
FetchFigmaDesignResult(length, image_paths) ==
    Truncate(IF image_paths # <<>>
             THEN Text(length, <<"\n">> \o FigmaMarker \o JoinWith(image_paths, <<",">>))
             ELSE Text(length, <<>>))

RECURSIVE StrippedNonEmpty(_)
StrippedNonEmpty(parts) ==
    IF parts = <<>> THEN <<>>
    ELSE (IF Strip(Head(parts)) # <<>> THEN <<Strip(Head(parts))>> ELSE <<>>)
         \o StrippedNonEmpty(Tail(parts))

\* os.path.exists: the files that export_images wrote
PathExists(path, exported) == \E k \in DOMAIN exported : exported[k] = path

(* core.py lines 226-232: the paths loaded from a result *)
LoadedImages(text, exported) ==
    IF Contains(text.tail, FigmaMarker)
    THEN LET marker == Strip(Split(text.tail, FigmaMarker)[2])
         IN  SelectSeq(StrippedNonEmpty(Split(marker, <<",">>)),
                       LAMBDA img_path : PathExists(img_path, exported))
    ELSE <<>>

(* core.py lines 226 and 234: the result text without the marker *)
ResultWithoutMarker(text) ==
    IF Contains(text.tail, FigmaMarker)
    THEN Text(text.head, IF text.head = 0
                         THEN Strip(Split(text.tail, FigmaMarker)[1])
                         ELSE RStripChars(Split(text.tail, FigmaMarker)[1], Whitespace))
    ELSE text

SpecLengths == {0} \cup (SpecsLimit - MaxMargin)..(SpecsLimit + 1)

InitFigma ==
    /\ RunIdle
    /\ SharedIdle
    /\ tool_pc = "idle"
    /\ tool_in \in [configured : BOOLEAN,
                    length : SpecLengths,
                    exported : {[k \in 1..n |-> FramePath(k)] : n \in 0..MaxExported},
                    export_raises : BOOLEAN]
    /\ tool_out = Text(0, <<>>)
    /\ effects = <<>>

(* lines 460-463 *)
FetchNotConfigured ==
    /\ tool_pc = "idle"
    /\ ~tool_in.configured
    /\ tool_pc' = "returned"
    /\ tool_out' = Text(0, NotConfigured)
    /\ UNCHANGED <<tool_in, effects, runvars, sharedvars>>

(* lines 465-537; when export_images raises no image is exported (490-491) *)
HandleFetchFigmaDesign ==
    /\ tool_pc = "idle"
    /\ tool_in.configured
    /\ tool_pc' = "returned"
    /\ tool_out' = FetchFigmaDesignResult(tool_in.length,
                       IF tool_in.export_raises THEN <<>> ELSE tool_in.exported)
    /\ UNCHANGED <<tool_in, effects, runvars, sharedvars>>

(* core.py lines 224-234 *)
ReceiveFigmaImages ==
    /\ tool_pc = "returned"
    /\ tool_pc' = "received"
    /\ effects' = LoadedImages(tool_out, tool_in.exported)
    /\ tool_out' = ResultWithoutMarker(tool_out)
    /\ UNCHANGED <<tool_in, runvars, sharedvars>>

NextFigma == FetchNotConfigured \/ HandleFetchFigmaDesign \/ ReceiveFigmaImages

SpecFigma == InitFigma /\ [][NextFigma]_vars

-----------------------------------------------------------------------------
(* Properties of the orchestration loop *)

InBatch == {"dispatch", "tool_wait", "pool_exit", "after_batch"}

FunctionResponses(turn) == SelectSeq(turn, LAMBDA it : it.t = "function_response")

\* C1: one call of run performs at most MAX_ITERATIONS iterations: the
\* counter never exceeds the limit, and when the 80th iteration has ended
\* with a dispatched batch the only step of run is to return the exhaustion
\* sentinel, without starting another iteration and without raising.
C1_IterationCeiling ==
    [][ /\ iteration_count' <= MAX_ITERATIONS
        /\ (pc = "loop_top" /\ iteration_count = MAX_ITERATIONS /\ pc' # pc)
              => /\ pc' = "done"
                 /\ outcome' = "exhausted"
                 /\ return_value' = ExhaustedText
                 /\ iteration_count' = iteration_count ]_vars

C1_Witness ==
    pc = "done" /\ outcome = "exhausted" /\ iteration_count = MAX_ITERATIONS

\* C2: once stop() has been called while a batch is being dispatched, no
\* handler of that batch starts any more, nothing is submitted to the model,
\* and the only way run leaves the batch is by raising AgentStopped.
C2_StopMidBatch ==
    [][ (stop_requested /\ pc \in InBatch)
           => /\ running' \subseteq running
              /\ current_input' = current_input
              /\ sent_log' = sent_log
              /\ pc' \in InBatch \cup {"done"}
              /\ (pc' = "done" => outcome' = "stopped")
              /\ (pc \in {"dispatch", "after_batch"} /\ pc' # pc => pc' = "done") ]_vars

C2_Witness ==
    /\ pc = "done" /\ outcome = "stopped"
    /\ Len(FunctionCalls(response)) = 2
    /\ Len(function_response_parts) = 1
    /\ fc_index = 2

\* C3 as stated: a stop requested at any moment between the invocation of
\* run and its end is never lost: the flag stays set and run can only end
\* with AgentStopped.
C3_StopNeverLost ==
    [][ (stop_requested /\ pc \notin {"idle", "done"})
           => /\ stop_requested'
              /\ (pc' = "done" => outcome' = "stopped") ]_vars

\* C3 as amended: a stop that is pending when run polls the flag (at the top
\* of the loop with an iteration left, before a tool call, after the batch)
\* or that is requested while a batch is dispatched is never lost: the flag
\* stays set and run ends with AgentStopped at its next poll.
C3_StopSeenAtPoll ==
    [][ (stop_requested /\ (pc \in InBatch \/ (pc = "loop_top" /\ iteration_count < MAX_ITERATIONS)))
           => /\ stop_requested'
              /\ pc' \in InBatch \cup {"loop_top", "done"}
              /\ (pc' = "done" => outcome' = "stopped")
              /\ (pc \in {"loop_top", "dispatch", "after_batch"} /\ pc' # pc => pc' = "done") ]_vars

C3_Witness ==
    /\ pc = "done" /\ outcome = "stopped"
    /\ iteration_count >= 1
    /\ Len(function_response_parts) = Len(FunctionCalls(response))
    /\ Len(function_response_parts) > 0

\* C4: when a call has been reported as timed out while its handler is still
\* executing, the loop goes on without waiting for the handler.
C4_TimedOutCallIsAbandoned ==
    (pc = "pool_exit" /\ fc_index \in running) => ENABLED TimeoutReturns

\* C5: no two tool calls of a batch run concurrently: at most one handler is
\* executing, and none is executing when the next call is dispatched, also
\* after a call that was reported as timed out.
C5_OneHandlerAtATime ==
    /\ Cardinality(running) <= 1
    /\ (pc \in {"dispatch", "after_batch", "loop_top", "send"} => running = {})
    /\ (pc = "tool_wait" => running \subseteq {fc_index})

C5_Witness ==
    /\ pc = "tool_wait"
    /\ fc_index = 2
    /\ running = {2}
    /\ function_response_parts[1].text = "timeout"

\* C6: the turn submitted after a batch starts with exactly one tool-response
\* record per call of the batch, in the order of the calls, and a record of
\* an empty result holds the placeholder text.
C6_OneRecordPerCallInOrder ==
    [][ (pc \in {"send", "retry"} /\ sent_log' # sent_log /\ iteration_count > 1)
           => LET turn == sent_log'[Len(sent_log')]
                  calls == FunctionCalls(response)
                  recs == FunctionResponses(turn)
              IN  /\ Len(recs) = Len(calls)
                  /\ Len(calls) > 0
                  /\ \A i \in 1..Len(calls) :
                        /\ turn[i] = recs[i]
                        /\ recs[i].name = calls[i].fc
                        /\ recs[i].text \in {"text", "placeholder", "error", "timeout"} ]_vars

C6_Witness ==
    /\ iteration_count = 2
    /\ Len(sent_log) >= 1
    /\ Len(FunctionResponses(sent_log[1])) = 2
    /\ sent_log[1][2].text = "placeholder"

\* C7: whatever the handler of a dispatched call does, an exception included,
\* the call yields one more record, the next call of the batch is dispatched
\* (or the batch ends) and run does not terminate.
C7_HandlerExceptionBecomesRecord ==
    [][ (pc = "tool_wait" /\ pc' \notin {"tool_wait", "pool_exit"})
           => /\ Len(function_response_parts') = Len(function_response_parts) + 1
              /\ outcome' = "none"
              /\ pc' = IF fc_index < Len(FunctionCalls(response))
                       THEN "dispatch" ELSE "after_batch" ]_vars

C7_Witness ==
    /\ pc = "tool_wait"
    /\ fc_index = 2
    /\ function_response_parts[1].text = "error"

\* C8: the round trip of an iteration is attempted at most twice, both times
\* with the same input; the retry follows a failed first attempt, and a
\* failed retry ends run with the API error text.
C8_RetryOnce ==
    LET tries == SelectSeq(sent_log, LAMBDA m : m # NudgeTurn)
    IN  /\ Len(tries) <= 2
        /\ \A i \in 1..Len(tries) : tries[i] = current_input
        /\ (pc = "retry" => Len(sent_log) = 1)
        /\ (outcome = "api_error" => pc = "done" /\ Len(sent_log) = 2)

C8_Witness ==
    pc = "done" /\ outcome = "api_error" /\ Len(sent_log) = 2 /\ iteration_count = 2

\* C9: a response without candidates, without content or with content that
\* has no parts is never taken as an answer (it is nudged instead), and run
\* does not raise.
C9_MalformedResponseIsNudged ==
    /\ (pc = "parse" => (response.has_parts /\ Len(response.parts) > 0))
    /\ outcome # "raised"

\* the text parts one after the other, with nothing between them
RECURSIVE Concatenation(_)
Concatenation(ps) ==
    IF Len(ps) = 0 THEN <<>> ELSE <<ps[1].text>> \o Concatenation(Tail(ps))

ImagesOf(turn) ==
    LET imgs == SelectSeq(turn, LAMBDA it : it.t = "image")
    IN  [i \in 1..Len(imgs) |-> imgs[i].text]

\* C11: every collected image that exists on disk (and can be opened) is in
\* the composed turn exactly once, after all the tool-response records, also
\* when it has no counterpart: a design image without an app image, an app
\* image without a design image, app images without any design image.
C11_EveryImageEmitted ==
    (pc = "loop_top" /\ \A i \in 1..Len(figma_images) : figma_images[i] # BrokenImage)
        => /\ ImagesOf(current_input) = figma_images
           /\ \A i \in 1..Len(function_response_parts) :
                 current_input[i] = function_response_parts[i]

-----------------------------------------------------------------------------
(* Properties of the command validator *)

\* the parts of a command between its chaining operators, stripped
SegmentsOf(command) ==
    LET parts == ChainParts(Lower(command))
    IN  [k \in DOMAIN parts |-> Strip(parts[k])]

IsAllowlisted(part) == \E a \in Range(ALLOWED_COMMANDS) : StartsWith(part, a)

HasDenylisted(part) == \E pattern \in Range(BLOCKED_PATTERNS) : Contains(part, pattern)

\* C12: a chain in which an allowlisted segment is followed by a segment
\* that contains a denylisted substring is rejected, whatever the position
\* of the allowlisted segment, the first included.
C12_AllowedThenBlockedIsRejected ==
    (/\ tool_pc = "done"
     /\ \E i, j \in DOMAIN SegmentsOf(tool_in) :
          /\ i < j
          /\ IsAllowlisted(SegmentsOf(tool_in)[i])
          /\ ~IsAllowlisted(SegmentsOf(tool_in)[j])
          /\ HasDenylisted(SegmentsOf(tool_in)[j]))
        => tool_out = "ValueError"

\* the segments of a command that are not an allowlisted leading segment
OutsideAllowedLead(command) ==
    LET segs == SegmentsOf(command)
    IN  IF IsAllowlisted(segs[1]) THEN Tail(segs) ELSE segs

\* C13: a command with a denylisted substring outside an allowlisted
\* leading segment makes validate_command raise, and run_command never hands
\* it to a shell.
C13_DenylistedIsNeverExecuted ==
    (/\ tool_pc = "done"
     /\ \E k \in DOMAIN OutsideAllowedLead(tool_in) :
          HasDenylisted(OutsideAllowedLead(tool_in)[k]))
        => /\ tool_out = "ValueError"
           /\ effects = <<>>

\* the install command, long or short, followed by arguments
InstallsWithArguments(part) ==
    \/ StartsWith(part, NpmInstall \o <<" ">>)
    \/ StartsWith(part, NpmI \o <<" ">>)

\* C14: a command that passes arguments to the install command is rejected,
\* standing alone or as a segment of a chain: no accepted command installs
\* a package named by the agent.
C14_InstallWithArgumentsIsRejected ==
    (/\ tool_pc = "done"
     /\ \E k \in DOMAIN SegmentsOf(tool_in) : InstallsWithArguments(SegmentsOf(tool_in)[k]))
        => /\ tool_out = "ValueError"
           /\ effects = <<>>

-----------------------------------------------------------------------------
(* Properties of file creation and of the output-path resolver *)

\* the sandbox: the output directory of the project root
OutputDir == BASE_DIR \o Slash \o <<"o", "u", "t", "p", "u", "t">>

\* the output directory itself counts as inside: open() cannot write there
InSandbox(resolved) == resolved = OutputDir \/ StartsWith(resolved, OutputDir \o Slash)

\* C15: every file create_file writes is inside the output/ sandbox of the
\* project root, and a request whose path resolves anywhere else (a parent,
\* a sibling, another directory of the project root) raises and writes
\* nothing.
C15_WritesStayInSandbox ==
    tool_pc = "done"
        => /\ \A k \in DOMAIN effects : InSandbox(effects[k])
           /\ ~InSandbox(Resolved(tool_out.raw, BASE_DIR))
                => (tool_out.raised /\ effects = <<>>)

\* C16: with an active project P, the resolver's result starts with
\* output/P/ for every requested path.
C16_ResultUnderActiveProject ==
    (tool_pc = "done" /\ tool_in.project # <<>>)
        => StartsWith(tool_out.raw, OutputSlash \o tool_in.project \o Slash)

\* C17: the resolver is idempotent: resolving its result again, under the
\* same active project or under none, returns the same path.
C17_ResolverIdempotent ==
    tool_pc = "done"
        => EnforceOutputDir(tool_out.raw, tool_in.project) = tool_out.raw

\* a request the resolver rewrote: a bare path put under the active project
C17_Witness ==
    /\ tool_pc = "done"
    /\ tool_in.path = <<"o", "t", "h", "e", "r", "/", "q", "u", "i", "z">>
    /\ tool_in.project = Quiz
    /\ tool_out.raw = <<"o", "u", "t", "p", "u", "t", "/", "q", "u", "i", "z", "/", "o", "t", "h", "e", "r", "/", "q", "u", "i", "z">>

\* the requested path with backslashes replaced and a leading "./" removed
Shape(path) ==
    LET q == Replace(path, <<"\\">>, Slash)
    IN  IF StartsWith(q, <<".", "/">>) THEN SubSeq(q, 3, Len(q)) ELSE q

\* the path has a segment "." or ".."
HasDotSegments(q) == \E seg \in Range(Split(q, Slash)) : seg \in {<<".">>, <<".", ".">>}

\* C18: with backslashes replaced and a leading "./" removed, a request
\* without "." and ".." segments is mapped by its shape: output/<project>/...
\* is returned unchanged; output/<file> gets the active project inserted;
\* <project>/... gets "output/" prepended; any other (bare) path gets
\* "output/<project>/" prepended; with no active project a bare path gets
\* "output/" prepended.
C18_ResolverMapsShapes ==
    (tool_pc = "done" /\ ~HasDotSegments(Shape(tool_in.path)))
        => LET q == Shape(tool_in.path)
               P == tool_in.project
               r == tool_out.raw
           IN  IF P = <<>>
               THEN ~StartsWith(q, OutputSlash) => r = OutputSlash \o q
               ELSE IF StartsWith(q, OutputSlash \o P \o Slash) THEN r = q
               ELSE IF StartsWith(q, OutputSlash)
                    THEN Len(Split(q, Slash)) = 2
                            => r = OutputSlash \o P \o Slash \o Split(q, Slash)[2]
               ELSE IF StartsWith(q, P \o Slash) THEN r = OutputSlash \o q
               ELSE r = OutputSlash \o P \o Slash \o q

-----------------------------------------------------------------------------
(* Properties of the dispatcher *)

\* C19: for a registered tool and an argument record that lacks a key the
\* tool's schema declares required, execute_tool returns a structured error
\* and the tool's handler is not invoked.
C19_MissingRequiredKeyIsAnError ==
    (/\ tool_pc = "done"
     /\ tool_in.is_dict
     /\ tool_in.name \in handlers \cap DOMAIN SchemaRequired
     /\ SchemaRequired[tool_in.name] \ tool_in.keys # {})
        => /\ tool_out.error
           /\ effects = <<>>

\* C20: execute_tool called with a name that has no registered handler
\* returns a structured error, raises nothing, invokes no handler and
\* changes no state.
C20_UnknownToolIsAnError ==
    (tool_pc = "done" /\ tool_in.name \notin handlers)
        => /\ tool_out.error
           /\ ~tool_out.raised
           /\ tool_out.tool = tool_in.name
           /\ effects = <<>>
           /\ RunIdle

\* a dict of arguments for a name that is declared as a tool and has no
\* handler: the call has returned the unknown-tool error
C20_Witness ==
    /\ tool_pc = "done"
    /\ tool_in.name = "check_existing_projects"
    /\ tool_in.is_dict
    /\ tool_out = ErrorJson("Unknown tool", "check_existing_projects")
    /\ effects = <<>>

-----------------------------------------------------------------------------
(* Properties of the multi-file write *)

\* writing this item fails: its path is missing, is rejected by
\* validate_path or by open(), or its content is missing
ItemFails(f, project) ==
    \/ ~f.has_path
    \/ ~f.has_content
    \/ ValidatePathRaises(EnforceOutputDir(f.path, project), BASE_DIR)
    \/ OpenRaises(Resolved(EnforceOutputDir(f.path, project), BASE_DIR))

-----------------------------------------------------------------------------
(* Properties of the dev-server slot *)

\* C22: the dev-server slot is a singleton: under every interleaving of
\* server-starting calls (run_command with a dev-server command,
\* preview_app) from one or several sessions, at most one dev-server
\* process launched by the system is alive at a time.
C22_OneDevServerAlive == Cardinality(procs) <= 1

-----------------------------------------------------------------------------
(* Properties of the memory store *)

\* C23: concurrent saves to one category never lose an entry and a search
\* never observes a partially written store: whenever nobody holds the
\* lock of a category its file is whole and holds the key of every save
\* that has completed on it, and no load has read a file in mid-write.
C23_SavesAreAtomic ==
    /\ \A c \in Categories :
         locks[c] = 0
            => /\ store[c].state # "partial"
               /\ \A t \in Callers : \A sv \in threads[t].saved :
                    sv.category = c /\ sv.key.name = "key"
                        => \E e \in store[c].entries : e.key = sv.key
    /\ \A t \in Callers : ~threads[t].seen_partial

\* two callers have saved their keys to the same category and both are there
C23_Witness ==
    /\ \A t \in Callers : threads[t].pc = "idle" /\ threads[t].op = "save"
    /\ \A t \in Callers : [category |-> "projects", key |-> UserKey(t)] \in threads[t].saved
    /\ \A t \in Callers : \E e \in store["projects"].entries : e.key = UserKey(t)

\* C26: a corrupted (unparsable) backing file is treated as an empty store
\* and is never fatal: search, get_relevant_context, save and save_session
\* on its category do not raise, and a save starts from the empty dict.
C26_CorruptFileIsEmptyStore ==
    \A t \in Callers :
        /\ threads[t].pc # "raised"
        /\ (threads[t].pc = "modify" /\ store[Head(threads[t].todo)].state = "corrupt")
              => threads[t].local = {}

\* a save has completed on a category whose file was corrupt: the file is
\* whole again and holds the saved key alone
C26_Witness ==
    \E t \in Callers :
        /\ threads[t].pc = "idle"
        /\ threads[t].op = "save"
        /\ threads[t].seen_corrupt
        /\ \E sv \in threads[t].saved :
              store[sv.category] = File("ok", {[key |-> sv.key, saved_at |-> clock]})

\* C24: after every save that touches the sessions category (save_session,
\* or save with category "sessions") the sessions store holds at most
\* MAX_SESSIONS entries, and the entries removed to respect the cap are the
\* ones with the oldest saved_at.
C24_SessionsAreCapped ==
    /\ (locks["sessions"] = 0 /\ store["sessions"].state = "ok")
          => Cardinality(store["sessions"].entries) <= MAX_SESSIONS
    /\ \A t \in Callers :
          (threads[t].pc = "open" /\ Head(threads[t].todo) = "sessions")
             => \A r \in store["sessions"].entries :
                   (\A k \in threads[t].local : k.key # r.key)
                      => \A k \in threads[t].local : r.saved_at <= k.saved_at

\* C25: memory round trip: after save(C, K, data), a search whose query
\* contains the literal text of K, over category C or over all the
\* searchable categories when C is one of them, returns an entry with
\* category C and key K.
C25_SavedKeyIsFound ==
    (/\ tool_pc = "done"
     /\ Contains(tool_in.query, tool_in.key)
     /\ tool_in.category \in Range(SearchOrder(tool_in.search_category)))
        => [category |-> tool_in.category, key |-> tool_in.key] \in tool_out

-----------------------------------------------------------------------------
(* Properties of the flow inference *)

Families == <<FORWARD_PATTERNS, BACKWARD_PATTERNS, SUBMIT_PATTERNS, RESTART_PATTERNS>>

\* the families a button text matches, by their place in the fixed order
MatchedFamilies(text) == {f \in DOMAIN Families : FamilyMatches(Families[f], text)}

\* the targets a family gives on screen i of n: none at a boundary
FamilyTargets(f, i, n) ==
    CASE f = 1 -> IF i + 1 < n THEN {i + 1} ELSE {}
      [] f = 2 -> IF i > 0 THEN {i - 1} ELSE {}
      [] f = 3 -> {n - 1}
      [] f = 4 -> {0}

\* the screens of the flow analysed, and the buttons on them
NumScreens == Len(tool_in.screens)
ScreenIndices == 0..(NumScreens - 1)
ButtonsOn(i) == Range(tool_in.screens[i + 1])

\* the targets of the transitions a button text triggers on screen i
TargetsOf(i, text) ==
    {tool_out[k].to : k \in {j \in DOMAIN tool_out :
        /\ ~tool_out[j].inferred
        /\ tool_out[j].from = i
        /\ tool_out[j].text = text}}

\* the transitions that come from buttons, and the inferred ones
ButtonDerived == SelectSeq(tool_out, LAMBDA t : ~t.inferred)
Inferred == SelectSeq(tool_out, LAMBDA t : t.inferred)

\* C27: a button on screen i of n whose text matches one family goes to i+1
\* for forward intent unless i is the last screen, to i-1 for backward intent
\* unless i = 0, to n-1 for submission intent and to 0 for restart intent;
\* at a boundary there is no transition, and every transition produced goes
\* from and to an existing screen index.
C27_TargetsFollowIntent ==
    tool_pc = "done" =>
        /\ \A k \in DOMAIN tool_out :
              tool_out[k].from \in ScreenIndices /\ tool_out[k].to \in ScreenIndices
        /\ \A i \in ScreenIndices : \A text \in ButtonsOn(i) :
              LET matched == MatchedFamilies(text)
              IN  \A f \in DOMAIN Families :
                     matched = {f} => TargetsOf(i, text) = FamilyTargets(f, i, NumScreens)

\* a forward button on the last screen and a backward button on the first
\* one give nothing, a submission button before the last screen goes to it
C27_Witness ==
    /\ tool_pc = "done"
    /\ NumScreens = MaxScreens
    /\ \E text \in ButtonsOn(NumScreens - 1) :
          MatchedFamilies(text) = {1} /\ TargetsOf(NumScreens - 1, text) = {}
    /\ \E text \in ButtonsOn(0) :
          MatchedFamilies(text) = {2} /\ TargetsOf(0, text) = {}
    /\ \E text \in ButtonsOn(1) :
          MatchedFamilies(text) = {3} /\ TargetsOf(1, text) = {NumScreens - 1}

\* C28: the families are tried in the order forward, backward, submission,
\* restart, and the first one that matches decides alone, a boundary
\* included; a button gives at most one transition.
C28_FirstFamilyDecides ==
    tool_pc = "done" =>
        \A i \in ScreenIndices :
           /\ \A text \in ButtonsOn(i) :
                 /\ Cardinality({k \in DOMAIN tool_out :
                        ~tool_out[k].inferred /\ tool_out[k].from = i /\ tool_out[k].text = text}) <= 1
                 /\ LET matched == MatchedFamilies(text)
                    IN  IF matched = {} THEN TargetsOf(i, text) = {}
                        ELSE LET first == CHOOSE f \in matched : \A g \in matched : f <= g
                             IN  TargetsOf(i, text) = FamilyTargets(first, i, NumScreens)
           /\ Len(SelectSeq(ButtonDerived, LAMBDA t : t.from = i)) <= Len(tool_in.screens[i + 1])

\* a text of the forward and the restart family on the last screen gives
\* nothing, a text of the forward and the backward family goes forward
C28_Witness ==
    /\ tool_pc = "done"
    /\ NumScreens = MaxScreens
    /\ \E text \in ButtonsOn(NumScreens - 1) :
          MatchedFamilies(text) = {1, 4} /\ TargetsOf(NumScreens - 1, text) = {}
    /\ \E text \in ButtonsOn(1) :
          MatchedFamilies(text) = {1, 2} /\ TargetsOf(1, text) = {2}

\* the inferred chain: screen i to screen i+1 for every i but the last
Chain == [k \in 1..(NumScreens - 1) |-> InferredTransition(k - 1)]

\* C29 as stated: the inferred chain is produced exactly when no button gave
\* a transition and there are two screens or more, never together with
\* transitions of buttons, and a single screen has no transition at all.
C29_SingleScreenHasNoTransition ==
    (tool_pc = "done" /\ NumScreens >= 1) =>
        /\ Inferred # <<>> <=> (ButtonDerived = <<>> /\ NumScreens >= 2)
        /\ Inferred # <<>> => tool_out = Chain
        /\ NumScreens = 1 => tool_out = <<>>

\* C29, amended: the inferred chain is produced exactly when no button gave a
\* transition and there are two screens or more, never together with
\* transitions of buttons; a single screen has no inferred transition, its
\* transitions are those of its submission and restart buttons, to itself.
C29_ChainOnlyWithoutButtonTransitions ==
    (tool_pc = "done" /\ NumScreens >= 1) =>
        /\ Inferred # <<>> <=> (ButtonDerived = <<>> /\ NumScreens >= 2)
        /\ Inferred # <<>> => tool_out = Chain
        /\ NumScreens = 1 =>
              /\ Inferred = <<>>
              /\ \A k \in DOMAIN tool_out : tool_out[k].from = 0 /\ tool_out[k].to = 0

\* screens with buttons that give no transition: the chain is inferred
C29_Witness ==
    /\ tool_pc = "done"
    /\ NumScreens = MaxScreens
    /\ \E i \in ScreenIndices : ButtonsOn(i) # {}
    /\ ButtonDerived = <<>>
    /\ tool_out = Chain

-----------------------------------------------------------------------------
(* Properties of the pairing of frames and routes *)

PairSet == Range(tool_out.pairs)
ScoreOf(p) == tool_in.score[<<p.ri, p.fi>>]
Smaller(a, b) == IF a < b THEN a ELSE b

\* C30: the pairing is one to one; a route and a frame with a positive score
\* are paired unless one of them is in a pair of a score at least as high
\* (greedy in descending score); the other routes and frames are paired by
\* position, so two lists that are not empty give min(#routes, #frames)
\* pairs; routes or frames without a partner remain on one side at most and
\* are reported as unmatched.
C30_PairingIsOneToOne ==
    tool_pc = "done" =>
        /\ \A p \in PairSet :
              p.ri \in 0..(tool_in.num_routes - 1) /\ p.fi \in 0..(tool_in.num_frames - 1)
        /\ \A k, l \in DOMAIN tool_out.pairs :
              k # l => /\ tool_out.pairs[k].ri # tool_out.pairs[l].ri
                       /\ tool_out.pairs[k].fi # tool_out.pairs[l].fi
        /\ \A r \in 0..(tool_in.num_routes - 1), f \in 0..(tool_in.num_frames - 1) :
              tool_in.score[<<r, f>>] > 0 =>
                 \E p \in PairSet :
                    /\ p.ri = r \/ p.fi = f
                    /\ ScoreOf(p) >= tool_in.score[<<r, f>>]
        /\ Len(tool_out.pairs) = Smaller(tool_in.num_routes, tool_in.num_frames)
        /\ tool_out.unmatched_routes = <<>> \/ tool_out.unpaired_figma = <<>>
        /\ Range(tool_out.unmatched_routes) =
              (0..(tool_in.num_routes - 1)) \ {p.ri : p \in PairSet}
        /\ Range(tool_out.unpaired_figma) =
              (0..(tool_in.num_frames - 1)) \ {p.fi : p \in PairSet}

\* a pair by score, a pair by position against the order of the lists, and
\* a match of positive score that a better one displaced
C30_Witness ==
    /\ tool_pc = "done"
    /\ \E p \in PairSet : ScoreOf(p) > 0 /\ p.ri # p.fi
    /\ \E p \in PairSet : ScoreOf(p) = 0
    /\ \E r \in 0..(tool_in.num_routes - 1), f \in 0..(tool_in.num_frames - 1) :
          tool_in.score[<<r, f>>] > 0 /\ [ri |-> r, fi |-> f] \notin PairSet

-----------------------------------------------------------------------------
(* Properties of validate over named frames and routes *)

\* the places of the image list that hold a given entry
PlacesOf(entry) == {k \in DOMAIN tool_out.image_paths : tool_out.image_paths[k] = entry}

\* C31: the image list of validate holds, for each pair in order, the design
\* image and right after it the screenshot of the pair, then the screenshots
\* and the design images without a partner; every screenshot and every
\* design image is in the list exactly once.
C31_EveryImageOnce ==
    tool_pc = "done" =>
        LET pairs == tool_out.pairs
            images == tool_out.image_paths
        IN  /\ Len(images) >= 2 * Len(pairs)
            /\ \A k \in DOMAIN pairs :
                  /\ images[2 * k - 1] = FigmaImagePath(tool_in.figma_frames[pairs[k].fi + 1])
                  /\ images[2 * k] = AppShotPath(tool_in.app_routes[pairs[k].ri + 1])
            /\ \A j, k \in (2 * Len(pairs) + 1)..Len(images) :
                  (images[j].figma /\ ~images[k].figma) => k < j
            /\ \A k \in DOMAIN tool_in.app_routes :
                  Cardinality(PlacesOf(AppShotPath(tool_in.app_routes[k]))) = 1
            /\ \A k \in DOMAIN tool_in.figma_frames :
                  Cardinality(PlacesOf(FigmaImagePath(tool_in.figma_frames[k]))) = 1

ExpectedRoutes ==
    << <<"/">>,    \* /
       <<"/", "q", "u", "i", "z">>,    \* /quiz
       <<"/", "r", "e", "s", "u", "l", "t", "s">> >>    \* /results
ExpectedFrames ==
    << <<"H", "o", "m", "e", " ", "P", "a", "g", "e">>,    \* Home Page
       <<"Q", "u", "i", "z", " ", "S", "c", "r", "e", "e", "n">>,    \* Quiz Screen
       <<"R", "e", "s", "u", "l", "t", "s">> >>    \* Results

\* C32: the frames Home Page, Quiz Screen, Results and the routes /, /quiz,
\* /results, in any order of either list, are paired by their names: Home
\* Page with /, Quiz Screen with /quiz, Results with /results.
C32_PairsFollowNames ==
    (/\ tool_pc = "done"
     /\ Range(tool_in.app_routes) = Range(ExpectedRoutes)
     /\ Range(tool_in.figma_frames) = Range(ExpectedFrames))
        => {<<tool_in.figma_frames[p.fi + 1], tool_in.app_routes[p.ri + 1]>> :
                p \in Range(tool_out.pairs)}
              = {<<ExpectedFrames[k], ExpectedRoutes[k]>> : k \in DOMAIN ExpectedRoutes}

\* the three frames against the three routes in reverse order
C32_Witness ==
    /\ tool_pc = "done"
    /\ tool_in.app_routes = [k \in 1..3 |-> ExpectedRoutes[4 - k]]
    /\ tool_in.figma_frames = ExpectedFrames
    /\ Len(tool_out.pairs) = 3
    /\ \A p \in Range(tool_out.pairs) : p.ri + p.fi = 2

-----------------------------------------------------------------------------
(* Properties of the prompt context *)

ContextBlocks ==
    {"[Project info]", "[Project memory]", "[Recent conversation]", "[Key file contents]"}

\* C33: the mode follows the presence of package.json in the project
\* directory alone: without it the result has the create directive and no
\* context block, whatever other files exist; with it the result has the
\* modify directive and the project-info block, and the memory and the chat
\* block only when their data is not empty.
C33_ModeFollowsManifest ==
    tool_pc = "done" =>
        IF tool_in.package_json
        THEN /\ Head(tool_out) = "[Mode: modify]"
             /\ "[Project info]" \in Range(tool_out)
             /\ "[Project memory]" \in Range(tool_out) => tool_in.memory.keys # {}
             /\ "[Recent conversation]" \in Range(tool_out) => tool_in.chat.messages > 0
        ELSE /\ Head(tool_out) = "[Mode: create]"
             /\ Range(tool_out) \cap ContextBlocks = {}

\* a directory with sources, memory and chat but no package.json: create
C33_Witness ==
    /\ tool_pc = "done"
    /\ tool_in.dir /\ ~tool_in.package_json
    /\ tool_in.app_jsx /\ tool_in.memory.keys # {} /\ tool_in.chat.messages > 0
    /\ tool_out = <<"[Mode: create]", "user_prompt">>

-----------------------------------------------------------------------------
(* Properties of the design cache and of the retry loop *)

\* the cache file a call of a client looks at
CacheOf(call) == IF call.op = "get_file" THEN store.files[call.doc] ELSE store.image

\* the file exists and is younger than the freshness window
InWindow(file) == file.exists /\ clock - file.mtime < CACHE_TTL

\* a step in which a client calls get_file or export_images
CallStarts == tool_in'.calls = tool_in.calls + 1

\* a step in which a request goes to the network
RequestMade == tool_out'.requests > tool_out.requests

Statuses == tool_out.statuses
LastStatus == Statuses[Len(Statuses)]

\* the loop has handed a response to its caller
ResponseReturned ==
    Statuses # <<>> /\ (tool_pc = "response" \/ tool_out.outcome \in {"returned", "JSONDecodeError"})

-----------------------------------------------------------------------------
(* Properties of the snapshots *)

\* C36: after every take_snapshot the project holds at most MAX_SNAPSHOTS
\* snapshots, those kept are the newest by timestamp of those that were
\* there, and the snapshot just taken is one of them.
C36_NewestSnapshotsKept ==
    tool_out # 0 =>
        /\ Cardinality(store.snapshots) <= MAX_SNAPSHOTS
        /\ store.snapshots \subseteq effects
        /\ \A kept \in store.snapshots : \A gone \in effects \ store.snapshots :
              kept.timestamp > gone.timestamp
        /\ Cardinality(effects) > MAX_SNAPSHOTS => Cardinality(store.snapshots) = MAX_SNAPSHOTS
        /\ [snapshot_id |-> tool_out, timestamp |-> clock] \in store.snapshots

\* the sixth snapshot is taken and the oldest one pruned
C36_Witness ==
    /\ tool_out # 0
    /\ Cardinality(effects) = MAX_SNAPSHOTS + 1
    /\ Cardinality(store.snapshots) = MAX_SNAPSHOTS
    /\ \E x \in store.snapshots : x.snapshot_id = tool_out

-----------------------------------------------------------------------------
(* Properties of the design parser *)

\* the depths of the nodes that show in the output of a walk
Contributing ==
    tool_out.frames
    \cup {tool_out.text_content[k] : k \in DOMAIN tool_out.text_content}
    \cup UNION {{e.layer} \cup {e.text[k] : k \in DOMAIN e.text} :
                   e \in {tool_out.interactive_elements[j] :
                             j \in DOMAIN tool_out.interactive_elements}}

\* C37: no walk goes deeper than the cap below a frame: a node deeper than
\* DEPTH_CAP levels contributes nothing to the output.
C37_NothingBelowTheCap ==
    \A depth \in Contributing : depth <= DEPTH_CAP

-----------------------------------------------------------------------------
(* Properties of concurrent web builds *)

\* C38: with two builds running, what one build does never changes the
\* active project of the other: every file write of a build for project P
\* is resolved under output/P/.
C38_WritesStayWithTheirBuild ==
    \A w \in effects : w.under = w.project

-----------------------------------------------------------------------------
(* Properties of the log queues *)

Places(events, kinds) == {k \in DOMAIN events : events[k] \in kinds}

\* C39: the queue of a session gets one 'done' event, as its last event and
\* after exactly one of result, stopped and error, however the run ended;
\* the stream that delivered 'done' has ended and the queue of the session
\* is removed.
C39_DoneIsLastAfterOneOutcome ==
    \A t \in Builds :
        LET events == effects[t]
            dones == Places(events, {"done"})
            outcomes == Places(events, OutcomeEvents)
        IN  /\ Cardinality(dones) <= 1
            /\ threads[t].pc = "finished" => dones # {}
            /\ dones # {} =>
                  /\ dones = {Len(events)}
                  /\ Cardinality(outcomes) = 1
                  /\ \A k \in outcomes : k < Len(events)
            /\ tool_out[t] = "ended" =>
                  /\ dones # {}
                  /\ store.queue[t] = <<>>
                  /\ t \notin store.log_queues

-----------------------------------------------------------------------------
(* Properties of the design fetch *)

\* C40: when fetch_figma_design exported a frame image, the agent core gets
\* every exported path from the result, however long the specification
\* text: the truncation neither removes nor cuts the marker.
C40_ImagesSurviveTruncation ==
    (/\ tool_pc = "received"
     /\ tool_in.configured
     /\ ~tool_in.export_raises
     /\ tool_in.exported # <<>>)
        => effects = tool_in.exported

=============================================================================
